---- MODULE Spec2Model ----
(***************************************************************************)
(* Price ensemble engine of foundyouadeal (PricingAgent): the helpers      *)
(* parsePrice / median / isReasonableSignal, the three concurrent signal   *)
(* branches getLlamaPrice, getGPTPrice, getPerplexityPrice, and the        *)
(* fan-in and fusion in predictPrice; detectCategory, parsePrice of the    *)
(* three-signal variant, and two predictPrice calls in flight at once.     *)
(*                                                                         *)
(* Numbers.  A JavaScript number is modelled as an integer count of model  *)
(* units; one cent is Cent units, so that the mean of up to six cent       *)
(* prices and the mean of two such values are exact.  Arithmetic is exact  *)
(* (IEEE rounding of products such as med * 0.2 is not modelled).  NaN and *)
(* null are the sentinels NaN and Null; every comparison is guarded the    *)
(* way JavaScript evaluates it (any comparison with NaN is false).         *)
(***************************************************************************)
EXTENDS Integers, Sequences, FiniteSets, TLC

Cent == 8 * 15
Dollar == 100 * Cent

\* the value JavaScript prints as NaN (parsePrice's failure result)
NaN == -999999999
\* JavaScript null (neighborAveragePrice, topDistance, detected category)
Null == -999999998

\* Number.isFinite(n): the model has no infinities
IsFinite(n) == n # NaN /\ n # Null

\* JavaScript `n > 0`
Gt0(n) == IsFinite(n) /\ n > 0

(***************************************************************************)
(* Text.  A model reply is a sequence of one-character strings.            *)
(***************************************************************************)
Digits == {"0", "1", "2", "3", "4", "5", "6", "7", "8", "9"}

DigitVal(c) ==
    CASE c = "0" -> 0 [] c = "1" -> 1 [] c = "2" -> 2 [] c = "3" -> 3
      [] c = "4" -> 4 [] c = "5" -> 5 [] c = "6" -> 6 [] c = "7" -> 7
      [] c = "8" -> 8 [] c = "9" -> 9

\* last index of the run of digits that starts at index i of s
RECURSIVE DigitRunEnd(_, _)
DigitRunEnd(s, i) ==
    IF i < Len(s) /\ s[i + 1] \in Digits THEN DigitRunEnd(s, i + 1) ELSE i

\* str.match(/[0-9]+(\.[0-9]+)?/): the leftmost match, <<>> when there is none
RegexMatch(s) ==
    LET starts == {i \in 1..Len(s) : s[i] \in Digits}
    IN  IF starts = {} THEN <<>>
        ELSE LET i == CHOOSE k \in starts : \A m \in starts : k <= m
                 j == DigitRunEnd(s, i)
                 frac == j + 2 <= Len(s) /\ s[j + 1] = "." /\ s[j + 2] \in Digits
                 k == IF frac THEN DigitRunEnd(s, j + 2) ELSE j
             IN  SubSeq(s, i, k)

\* value of a run of digits as an integer
RECURSIVE DigitsValue(_)
DigitsValue(ds) ==
    IF ds = <<>> THEN 0
    ELSE 10 * DigitsValue(SubSeq(ds, 1, Len(ds) - 1)) + DigitVal(ds[Len(ds)])

\* 10^n
RECURSIVE Pow10(_)
Pow10(n) == IF n = 0 THEN 1 ELSE 10 * Pow10(n - 1)

\* parseFloat of a token matched by RegexMatch, in model units
ParseFloat(tok) ==
    LET dots == {i \in 1..Len(tok) : tok[i] = "."}
    IN  IF dots = {} THEN DigitsValue(tok) * Dollar
        ELSE LET d == CHOOSE i \in dots : TRUE
                 fr == SubSeq(tok, d + 1, Len(tok))
             IN  DigitsValue(SubSeq(tok, 1, d - 1)) * Dollar
                   + (DigitsValue(fr) * Dollar) \div Pow10(Len(fr))

\* parsePrice(text): first number in the text, NaN when there is none
parsePrice(text) ==
    IF text = <<>> THEN NaN
    ELSE LET match == RegexMatch(text)
         IN  IF match = <<>> THEN NaN ELSE ParseFloat(match)

(***************************************************************************)
(* median and the outlier guard                                            *)
(***************************************************************************)
\* [...values].sort((a, b) => a - b)
SortAsc(values) == SortSeq(values, LAMBDA a, b : a < b)

\* a median that takes the middle of the list as it was given
medianUnsorted(values) ==
    IF Len(values) = 0 THEN 0
    ELSE LET mid == Len(values) \div 2
         IN  IF Len(values) % 2 = 0
             THEN (values[mid] + values[mid + 1]) \div 2
             ELSE values[mid + 1]

median(values) ==
    IF Len(values) = 0 THEN 0
    ELSE LET sorted == SortAsc(values)
             mid == Len(sorted) \div 2
         IN  IF Len(sorted) % 2 = 0
             THEN (sorted[mid] + sorted[mid + 1]) \div 2
             ELSE sorted[mid + 1]

\* isReasonableSignal with the two bounds themselves rejected
isReasonableSignalExclusive(candidate, baseline) ==
    IF candidate = 0 \/ ~IsFinite(candidate) \/ candidate <= 0 THEN FALSE
    ELSE IF Len(baseline) = 0 THEN TRUE
    ELSE LET med == median(baseline)
         IN  IF med = 0 THEN TRUE
             ELSE IF candidate * 5 <= med \/ candidate >= med * 5 THEN FALSE
             ELSE TRUE

\* isReasonableSignal(candidate, baseline); med * 0.2 is med / 5
isReasonableSignal(candidate, baseline) ==
    IF candidate = 0 \/ ~IsFinite(candidate) \/ candidate <= 0 THEN FALSE
    ELSE IF Len(baseline) = 0 THEN TRUE
    ELSE LET med == median(baseline)
         IN  IF med = 0 THEN TRUE
             ELSE IF candidate * 5 < med \/ candidate > med * 5 THEN FALSE
             ELSE TRUE

\* the final price returned as computed, without rounding
Round2Missing(x) == x

\* Math.round(x * 100) / 100: to the nearest cent, halves upwards
Round2(x) == ((2 * x + Cent) \div (2 * Cent)) * Cent

(***************************************************************************)
(* Neighbour quality filter of getGPTPrice.  A neighbour is a record       *)
(* [price, distance]; a distance is in hundredths.                         *)
(***************************************************************************)
GOOD_NEIGHBOR_MAX_DISTANCE == 50

\* the filter with `<` for `<=`: a neighbour at the threshold is dropped
goodNeighborsStrict(similarProducts) ==
    SelectSeq(similarProducts,
              LAMBDA p : IsFinite(p.distance)
                           /\ p.distance < GOOD_NEIGHBOR_MAX_DISTANCE)

\* the filter with the softer threshold 0.6 of the three-signal variant
goodNeighborsSoft(similarProducts) ==
    SelectSeq(similarProducts,
              LAMBDA p : IsFinite(p.distance) /\ p.distance <= 60)

\* similarProducts.filter(p => finite distance <= GOOD_NEIGHBOR_MAX_DISTANCE)
goodNeighbors(similarProducts) ==
    SelectSeq(similarProducts,
              LAMBDA p : IsFinite(p.distance)
                           /\ p.distance <= GOOD_NEIGHBOR_MAX_DISTANCE)

\* goodNeighbors.map(p => Number(p.price || 0)).filter(n => n > 0)
prices(good) ==
    SelectSeq([i \in 1..Len(good) |->
                  IF IsFinite(good[i].price) THEN good[i].price ELSE 0],
              LAMBDA n : n > 0)

\* prices.reduce((sum, v) => sum + v, 0)
RECURSIVE SumSeq(_)
SumSeq(s) == IF s = <<>> THEN 0 ELSE s[1] + SumSeq(Tail(s))

\* the local neighborAveragePrice: mean of prices, 0 when there are none
neighborAveragePrice(ps) ==
    IF Len(ps) > 0 THEN SumSeq(ps) \div Len(ps) ELSE 0

\* similarProducts[0].distance when it is a number
topDistanceOf(similarProducts) == similarProducts[1].distance

(***************************************************************************)
(* Fusion in predictPrice                                                  *)
(***************************************************************************)
\* a baseline that takes every number it is given, positive or not
baselineSignalsUnfiltered(llama, gptPrice, neighborAvg) ==
    (IF IsFinite(llama) THEN <<llama>> ELSE <<>>)
      \o (IF IsFinite(gptPrice) THEN <<gptPrice>> ELSE <<>>)
      \o (IF IsFinite(neighborAvg) THEN <<neighborAvg>> ELSE <<>>)

\* baselineSignals: the positive signals other than Perplexity
baselineSignals(llama, gptPrice, neighborAvg) ==
    (IF Gt0(llama) THEN <<llama>> ELSE <<>>)
      \o (IF Gt0(gptPrice) THEN <<gptPrice>> ELSE <<>>)
      \o (IF Gt0(neighborAvg) THEN <<neighborAvg>> ELSE <<>>)

\* the Perplexity price taken as it came, without the sanity check
perplexityPriceUnscreened(raw, baseline) == IF ~IsFinite(raw) THEN 0 ELSE raw

\* perplexityPrice after the sanity check against the baseline
perplexityPrice(raw, baseline) ==
    IF ~IsFinite(raw) THEN 0
    ELSE IF ~isReasonableSignal(raw, baseline) THEN 0
    ELSE raw

\* signals: every positive input in the order llama, gpt, neighbour avg, perplexity
signals(llama, gptPrice, neighborAvg, pplx) ==
    baselineSignals(llama, gptPrice, neighborAvg)
      \o (IF Gt0(pplx) THEN <<pplx>> ELSE <<>>)

\* a fusion that adds the signals up
ensembleSum(sigs, llama, gptPrice, pplx) ==
    [finalPrice |-> SumSeq(sigs), method |-> "Sum of signals"]

\* the ladder that sets finalPrice and method
ensemble(sigs, llama, gptPrice, pplx) ==
    IF Len(sigs) >= 2
    THEN [finalPrice |-> median(sigs),
          method |-> IF Len(sigs) = 4
                     THEN "Median of Llama + GPT + neighbor avg + Perplexity"
                     ELSE IF Len(sigs) = 3 THEN "Median of three signals"
                     ELSE "Median of available signals"]
    ELSE IF Gt0(llama) THEN [finalPrice |-> llama, method |-> "Llama only"]
    ELSE IF Gt0(gptPrice) THEN [finalPrice |-> gptPrice, method |-> "GPT only"]
    ELSE IF Gt0(pplx) THEN [finalPrice |-> pplx, method |-> "Perplexity only"]
    ELSE [finalPrice |-> 0, method |-> "All failed"]

(***************************************************************************)
(* Remote services.  Every remote call is answered by a scripted response  *)
(* [kind, val]: the script of a call is fixed the first time the call is   *)
(* answered and replayed afterwards (a deterministic backend); the two     *)
(* context-free calls that one getGPTPrice can make are scripted apart.    *)
(***************************************************************************)
MaxRuns == 2
MaxNeighbors == 2

Unset == [kind |-> "unset", val |-> 0]

\* data.price of the hosted model's JSON body (Null: the body has no price)
LlamaPrices == {Null, 40 * Dollar, 0 - 5 * Dollar}

\* fetch rejects / response.json() rejects (the body is not JSON) /
\* response.ok is false / the body has an error field / the body parsed;
\* val is the price field of the body, which an error answer may carry too
LlamaResponses ==
    {[kind |-> k, val |-> 0] : k \in {"neterr", "badjson"}}
      \cup {[kind |-> k, val |-> p] : k \in {"notok", "errbody"},
                                      p \in {Null, 40 * Dollar}}
      \cup {[kind |-> "ok", val |-> p] : p \in LlamaPrices}

ALLOWED_CATEGORIES ==
    <<"Automotive", "Electronics", "Office_Products",
      "Tools_and_Home_Improvement", "Cell_Phones_and_Accessories",
      "Toys_and_Games", "Appliances", "Musical_Instruments">>

NullCategory == "null"

\* a classifier reply is a sequence of pieces of text
ClassifierResponses ==
    {[kind |-> "error", val |-> <<>>],
     [kind |-> "ok", val |-> <<"Electronics">>],
     [kind |-> "ok", val |-> <<"Unknown">>]}

EmbeddingResponses == {[kind |-> "error", val |-> 0], [kind |-> "ok", val |-> 384]}

\* catalogue rows the search can return: near, at the threshold with and
\* without a price, and beyond the threshold
Neighbors ==
    {[price |-> 40 * Dollar, distance |-> 10],
     [price |-> 4501 * Cent, distance |-> GOOD_NEIGHBOR_MAX_DISTANCE],
     [price |-> 0, distance |-> GOOD_NEIGHBOR_MAX_DISTANCE],
     [price |-> 40 * Dollar, distance |-> 60]}

\* ORDER BY distance ... LIMIT: rows come nearest first
NeighborLists ==
    {ns \in UNION {[1..n -> Neighbors] : n \in 0..MaxNeighbors} :
        \A i \in 1..(Len(ns) - 1) : ns[i].distance <= ns[i + 1].distance}

SearchResponses ==
    {[kind |-> "error", val |-> <<>>]}
      \cup {[kind |-> "ok", val |-> ns] : ns \in NeighborLists}

\* replies of the chat models (message.content); <<>> is an empty or null content
GptReplies == {<<"n", "/", "a">>, <<"6", "0">>, <<"$", "4", "5", ".", "5">>}
SonarReplies == {<<>>, <<"0">>, <<"4", "5">>, <<"1", ",", "0", "0", "0">>,
                 <<"1", "0", "0", "0">>}

ChatResponses(replies) ==
    {[kind |-> "error", val |-> <<>>]} \cup {[kind |-> "ok", val |-> t] : t \in replies}

\* process.env: PERPLEXITY_ENABLED is 'false' / PERPLEXITY_API_KEY unset / usable
PerplexityEnvs == {"disabled", "nokey", "on"}

VARIABLES
    env,                \* the Perplexity environment of the process
    backend,            \* the scripts of the remote calls
    run,                \* number of predictPrice calls made so far
    mainPc,             \* predictPrice: "idle", "await", "done", "threw"
    llamaPc,            \* getLlamaPrice: "idle", "fetch", "done"
    gptPc,              \* getGPTPrice: where it awaits
    pplxPc,             \* getPerplexityPrice: "idle", "first", "retry", "done"
    llamaResult,        \* value getLlamaPrice resolved to
    gpt,                \* locals and result of getGPTPrice
    rawPerplexityPrice, \* value getPerplexityPrice resolved to
    calls,              \* remote calls issued in this run, per service
    fusion,             \* locals of predictPrice after the join
    prediction,         \* the object predictPrice returned
    previous,           \* outcome of the previous run
    probe,              \* arguments and result of a helper applied on its own
    other               \* working state of a second call in flight, suspended

vars == <<env, backend, run, mainPc, llamaPc, gptPc, pplxPc, llamaResult, gpt,
          rawPerplexityPrice, calls, fusion, prediction, previous, probe, other>>

NoCalls == [llama |-> 0, classifier |-> 0, embedding |-> 0, search |-> 0,
            rag |-> 0, simple |-> 0, sonar |-> 0]

NoResult == [price |-> Null, neighborAveragePrice |-> Null,
             neighborCount |-> 0, topDistance |-> Null]

GptIdle == [detectedCategory |-> NullCategory, similarProducts |-> <<>>,
            goodNeighbors |-> <<>>, neighborAveragePrice |-> 0,
            topDistance |-> Null, result |-> NoResult]

NoFusion == [baselineSignals |-> <<>>, perplexityPrice |-> 0, signals |-> <<>>,
             finalPrice |-> 0, method |-> "Unknown"]

NoPrediction == [llamaPrice |-> Null, gptPrice |-> Null, perplexityPrice |-> Null,
                 finalPrice |-> Null]

NoOutcome == [status |-> "none", prediction |-> NoPrediction, method |-> "Unknown"]

NoProbe == [op |-> "none"]

\* the working state of a predictPrice call that has not been made
NoCall ==
    [mainPc |-> "idle", llamaPc |-> "idle", gptPc |-> "idle", pplxPc |-> "idle",
     llamaResult |-> Null, gpt |-> GptIdle, rawPerplexityPrice |-> Null,
     calls |-> NoCalls, fusion |-> NoFusion, prediction |-> NoPrediction]

\* no remote call answered yet
Unscripted == [llama |-> Unset, classifier |-> Unset, embedding |-> Unset,
               search |-> Unset, rag |-> Unset, simple1 |-> Unset,
               simple2 |-> Unset, sonar1 |-> Unset, sonar2 |-> Unset]

\* a PricingAgent right after construction, no call made yet
AgentIdle ==
    /\ run = 0
    /\ mainPc = "idle"
    /\ llamaPc = "idle"
    /\ gptPc = "idle"
    /\ pplxPc = "idle"
    /\ llamaResult = Null
    /\ gpt = GptIdle
    /\ rawPerplexityPrice = Null
    /\ calls = NoCalls
    /\ fusion = NoFusion
    /\ prediction = NoPrediction
    /\ previous = NoOutcome
    /\ other = NoCall

Init ==
    /\ env \in PerplexityEnvs
    /\ backend = Unscripted
    /\ AgentIdle
    /\ probe = NoProbe

\* the response r answers the call scripted in `slot`
Answers(slot, r) == backend[slot].kind = "unset" \/ backend[slot] = r

Record(slot, r) == backend' = [backend EXCEPT ![slot] = r]

(***************************************************************************)
(* predictPrice: the call, which starts the three branches together        *)
(***************************************************************************)
Settled ==
    /\ mainPc \in {"done", "threw"}
    /\ llamaPc = "done"
    /\ gptPc \in {"done", "threw"}
    /\ pplxPc = "done"

Outcome ==
    [status |-> IF mainPc = "done" THEN "returned" ELSE "threw",
     prediction |-> prediction,
     method |-> fusion.method]

\* a call whose getGPTPrice issues the vector search at once, without the
\* classification and the embedding
StartRunSearchFirst ==
    /\ run' = run + 1
    /\ mainPc' = "await"
    /\ llamaPc' = "fetch"
    /\ gptPc' = "search"
    /\ pplxPc' = IF env = "on" THEN "first" ELSE "done"
    /\ rawPerplexityPrice' = IF env = "on" THEN Null ELSE NaN
    /\ llamaResult' = Null
    /\ gpt' = GptIdle
    /\ calls' = [NoCalls EXCEPT !.llama = 1, !.search = 1,
                                !.sonar = IF env = "on" THEN 1 ELSE 0]
    /\ fusion' = NoFusion
    /\ prediction' = NoPrediction
    /\ UNCHANGED <<env, backend, probe>>

\* predictPrice(description) up to `await Promise.all([...])`: each branch runs
\* to its first await; getPerplexityPrice returns NaN at once when it is
\* switched off or has no API key
StartRun ==
    /\ run' = run + 1
    /\ mainPc' = "await"
    /\ llamaPc' = "fetch"
    /\ gptPc' = "detectCategory"
    /\ pplxPc' = IF env = "on" THEN "first" ELSE "done"
    /\ rawPerplexityPrice' = IF env = "on" THEN Null ELSE NaN
    /\ llamaResult' = Null
    /\ gpt' = GptIdle
    /\ calls' = [NoCalls EXCEPT !.llama = 1, !.classifier = 1,
                                !.sonar = IF env = "on" THEN 1 ELSE 0]
    /\ fusion' = NoFusion
    /\ prediction' = NoPrediction
    /\ UNCHANGED <<env, backend, probe>>

\* the first predictPrice call
CallPredictPrice ==
    /\ mainPc = "idle"
    /\ previous' = NoOutcome
    /\ StartRun
    /\ UNCHANGED other

\* a further predictPrice call for the same description, made when the
\* earlier one is over; the backends replay their scripts
CallAgain ==
    /\ Settled
    /\ run < MaxRuns
    /\ previous' = Outcome
    /\ StartRun
    /\ UNCHANGED other

(***************************************************************************)
(* getLlamaPrice                                                           *)
(***************************************************************************)
\* data.price || 0
PriceOrZero(p) == IF p = Null \/ p = NaN \/ p = 0 THEN 0 ELSE p

\* a getLlamaPrice that reads the price without looking at the status or
\* at the error field
getLlamaPriceUnchecked(r) == PriceOrZero(r.val)

\* value getLlamaPrice resolves to for a response of the hosted model: every
\* throw inside the try block is caught and gives 0
getLlamaPrice(r) == IF r.kind = "ok" THEN PriceOrZero(r.val) ELSE 0

LlamaResponds ==
    /\ llamaPc = "fetch"
    /\ \E r \in LlamaResponses :
        /\ Answers("llama", r)
        /\ Record("llama", r)
        /\ llamaResult' = getLlamaPrice(r)
    /\ llamaPc' = "done"
    /\ UNCHANGED <<env, run, mainPc, gptPc, pplxPc, gpt, rawPerplexityPrice,
                   calls, fusion, prediction, previous,
                   probe, other>>

(***************************************************************************)
(* getGPTPrice                                                             *)
(***************************************************************************)
\* a classifier reply is a sequence of pieces of text; the pieces a category
\* string is made of
Spelling(cat) ==
    CASE cat = "Tools_and_Home_Improvement" -> <<"Tools", "_and_", "Home_Improvement">>
      [] cat = "Cell_Phones_and_Accessories" -> <<"Cell_Phones", "_and_", "Accessories">>
      [] cat = "Toys_and_Games" -> <<"Toys", "_and_", "Games">>
      [] OTHER -> <<cat>>

\* raw.includes(cat)
Includes(raw, cat) ==
    LET pat == Spelling(cat)
    IN  \E i \in 1..(Len(raw) - Len(pat) + 1) : SubSeq(raw, i, i + Len(pat) - 1) = pat

\* a classifier that accepts a category only when it is the whole reply
detectCategoryWholeReply(r) ==
    IF r.kind # "ok" THEN NullCategory
    ELSE LET hits == {i \in 1..Len(ALLOWED_CATEGORIES) :
                        r.val = Spelling(ALLOWED_CATEGORIES[i])}
         IN  IF hits = {} THEN NullCategory
             ELSE ALLOWED_CATEGORIES[CHOOSE i \in hits : \A j \in hits : i <= j]

\* ALLOWED_CATEGORIES.find(cat => raw.includes(cat)), null when none matches
\* or when the call throws
detectCategory(r) ==
    IF r.kind # "ok" THEN NullCategory
    ELSE LET hits == {i \in 1..Len(ALLOWED_CATEGORIES) :
                        Includes(r.val, ALLOWED_CATEGORIES[i])}
         IN  IF hits = {} THEN NullCategory
             ELSE ALLOWED_CATEGORIES[CHOOSE i \in hits : \A j \in hits : i <= j]

\* Number.isFinite(parsed) ? parsed : 0
FiniteOrZero(parsed) == IF IsFinite(parsed) THEN parsed ELSE 0

\* result of the context-free paths: no neighbour average, no neighbours
FallbackResult(price, top) ==
    [price |-> price, neighborAveragePrice |-> Null, neighborCount |-> 0,
     topDistance |-> top]

\* result of the retrieval-augmented path
RagResult(price, good, avg, top) ==
    [price |-> price,
     neighborAveragePrice |-> IF Len(prices(good)) > 0 /\ IsFinite(avg)
                              THEN avg ELSE Null,
     neighborCount |-> Len(good),
     topDistance |-> top]

\* step 3 of getGPTPrice for a non-empty result of the search: the good
\* neighbours, the top-1 distance, the mean price fed to the prompt (computed
\* only when a good neighbour exists) and the average reported for fusion
NeighborStats(similarProducts) ==
    LET good == goodNeighbors(similarProducts)
        avg == IF Len(good) = 0 THEN 0 ELSE neighborAveragePrice(prices(good))
    IN  [goodNeighbors |-> good,
         topDistance |-> topDistanceOf(similarProducts),
         neighborAveragePrice |-> avg,
         reported |-> IF Len(good) = 0 THEN Null
                      ELSE RagResult(0, good, avg, Null).neighborAveragePrice]

\* the catch block: one more context-free call is issued
EnterCatch ==
    /\ gptPc' = "catchSimple"
    /\ calls' = [calls EXCEPT !.simple = @ + 1]

\* detectCategory answers (or fails: null); the embedding is requested
CategoryResponds ==
    /\ gptPc = "detectCategory"
    /\ \E r \in ClassifierResponses :
        /\ Answers("classifier", r)
        /\ Record("classifier", r)
        /\ gpt' = [gpt EXCEPT !.detectedCategory = detectCategory(r)]
    /\ gptPc' = "embedding"
    /\ calls' = [calls EXCEPT !.embedding = @ + 1]
    /\ UNCHANGED <<env, run, mainPc, llamaPc, pplxPc, llamaResult,
                   rawPerplexityPrice, fusion, prediction, previous,
                   probe, other>>

\* the embedding arrives and the vector search is issued, or the call throws
EmbeddingResponds ==
    /\ gptPc = "embedding"
    /\ \E r \in EmbeddingResponses :
        /\ Answers("embedding", r)
        /\ Record("embedding", r)
        /\ IF r.kind = "ok"
           THEN /\ gptPc' = "search"
                /\ calls' = [calls EXCEPT !.search = @ + 1]
           ELSE EnterCatch
    /\ UNCHANGED <<env, run, mainPc, llamaPc, pplxPc, llamaResult, gpt,
                   rawPerplexityPrice, fusion, prediction, previous,
                   probe, other>>

\* the rows arrive: no rows or no good neighbour -> context-free call,
\* otherwise the neighbour statistics and the retrieval-augmented call
SearchResponds ==
    /\ gptPc = "search"
    /\ \E r \in SearchResponses :
        /\ Answers("search", r)
        /\ Record("search", r)
        /\ IF r.kind # "ok"
           THEN EnterCatch /\ UNCHANGED gpt
           ELSE IF Len(r.val) = 0
           THEN /\ gptPc' = "simpleNoRows"
                /\ calls' = [calls EXCEPT !.simple = @ + 1]
                /\ UNCHANGED gpt
           ELSE LET st == NeighborStats(r.val)
                    good == st.goodNeighbors
                IN  /\ gpt' = [gpt EXCEPT
                                 !.similarProducts = r.val,
                                 !.goodNeighbors = good,
                                 !.topDistance = st.topDistance,
                                 !.neighborAveragePrice = st.neighborAveragePrice]
                    /\ IF Len(good) = 0
                       THEN /\ gptPc' = "simpleNoGood"
                            /\ calls' = [calls EXCEPT !.simple = @ + 1]
                       ELSE /\ gptPc' = "rag"
                            /\ calls' = [calls EXCEPT !.rag = @ + 1]
    /\ UNCHANGED <<env, run, mainPc, llamaPc, pplxPc, llamaResult,
                   rawPerplexityPrice, fusion, prediction, previous,
                   probe, other>>

\* the context-free call made inside the try block answers
SimpleResponds ==
    /\ gptPc \in {"simpleNoRows", "simpleNoGood"}
    /\ \E r \in ChatResponses(GptReplies) :
        /\ Answers("simple1", r)
        /\ Record("simple1", r)
        /\ IF r.kind = "ok"
           THEN /\ gpt' = [gpt EXCEPT !.result =
                             FallbackResult(FiniteOrZero(parsePrice(r.val)),
                                            IF gptPc = "simpleNoRows" THEN Null
                                            ELSE gpt.topDistance)]
                /\ gptPc' = "done"
                /\ UNCHANGED calls
           ELSE EnterCatch /\ UNCHANGED gpt
    /\ UNCHANGED <<env, run, mainPc, llamaPc, pplxPc, llamaResult,
                   rawPerplexityPrice, fusion, prediction, previous,
                   probe, other>>

\* the retrieval-augmented call answers
RagResponds ==
    /\ gptPc = "rag"
    /\ \E r \in ChatResponses(GptReplies) :
        /\ Answers("rag", r)
        /\ Record("rag", r)
        /\ IF r.kind = "ok"
           THEN /\ gpt' = [gpt EXCEPT !.result =
                             RagResult(FiniteOrZero(parsePrice(r.val)),
                                       gpt.goodNeighbors,
                                       gpt.neighborAveragePrice,
                                       gpt.topDistance)]
                /\ gptPc' = "done"
                /\ UNCHANGED calls
           ELSE EnterCatch /\ UNCHANGED gpt
    /\ UNCHANGED <<env, run, mainPc, llamaPc, pplxPc, llamaResult,
                   rawPerplexityPrice, fusion, prediction, previous,
                   probe, other>>

\* script of the context-free call made in the catch block: the first such
\* call of this getGPTPrice, or the second when the try block made one already
CatchSlot == IF calls.simple = 1 THEN "simple1" ELSE "simple2"

\* the context-free call made in the catch block answers; its failure is not
\* caught and rejects getGPTPrice
CatchSimpleResponds ==
    /\ gptPc = "catchSimple"
    /\ \E r \in ChatResponses(GptReplies) :
        /\ Answers(CatchSlot, r)
        /\ Record(CatchSlot, r)
        /\ IF r.kind = "ok"
           THEN /\ gpt' = [gpt EXCEPT !.result =
                             FallbackResult(FiniteOrZero(parsePrice(r.val)), Null)]
                /\ gptPc' = "done"
           ELSE /\ gptPc' = "threw"
                /\ UNCHANGED gpt
    /\ UNCHANGED <<env, run, mainPc, llamaPc, pplxPc, llamaResult,
                   rawPerplexityPrice, calls, fusion, prediction, previous,
                   probe, other>>

(***************************************************************************)
(* getPerplexityPrice                                                      *)
(***************************************************************************)
\* a retry condition that forgets the non-positive case
NeedsRetryUnparsedOnly(parsed) == ~IsFinite(parsed)

\* the retry condition: !Number.isFinite(parsed) || parsed <= 0
NeedsRetry(parsed) == ~IsFinite(parsed) \/ parsed <= 0

\* the first Sonar call answers: a thrown error gives NaN, a reply without a
\* positive number issues the stricter second call
SonarFirstResponds ==
    /\ pplxPc = "first"
    /\ \E r \in ChatResponses(SonarReplies) :
        /\ Answers("sonar1", r)
        /\ Record("sonar1", r)
        /\ IF r.kind # "ok"
           THEN /\ rawPerplexityPrice' = NaN
                /\ pplxPc' = "done"
                /\ UNCHANGED calls
           ELSE IF NeedsRetry(parsePrice(r.val))
           THEN /\ pplxPc' = "retry"
                /\ calls' = [calls EXCEPT !.sonar = @ + 1]
                /\ UNCHANGED rawPerplexityPrice
           ELSE /\ rawPerplexityPrice' = parsePrice(r.val)
                /\ pplxPc' = "done"
                /\ UNCHANGED calls
    /\ UNCHANGED <<env, run, mainPc, llamaPc, gptPc, llamaResult, gpt,
                   fusion, prediction, previous,
                   probe, other>>

\* a retry that is retried once more when its reply is unusable too
SonarRetryRespondsOnceMore ==
    /\ pplxPc = "retry"
    /\ \E r \in ChatResponses(SonarReplies) :
        /\ Answers("sonar2", r)
        /\ Record("sonar2", r)
        /\ IF r.kind = "ok" /\ NeedsRetry(parsePrice(r.val)) /\ calls.sonar < 3
           THEN /\ pplxPc' = "retry"
                /\ calls' = [calls EXCEPT !.sonar = @ + 1]
                /\ UNCHANGED rawPerplexityPrice
           ELSE /\ pplxPc' = "done"
                /\ rawPerplexityPrice' = IF r.kind = "ok" THEN parsePrice(r.val)
                                          ELSE NaN
                /\ UNCHANGED calls
    /\ UNCHANGED <<env, run, mainPc, llamaPc, gptPc, llamaResult, gpt,
                   fusion, prediction, previous,
                   probe, other>>

\* the retry answers: whatever parsePrice makes of it is returned
SonarRetryResponds ==
    /\ pplxPc = "retry"
    /\ \E r \in ChatResponses(SonarReplies) :
        /\ Answers("sonar2", r)
        /\ Record("sonar2", r)
        /\ rawPerplexityPrice' = IF r.kind = "ok" THEN parsePrice(r.val) ELSE NaN
    /\ pplxPc' = "done"
    /\ UNCHANGED <<env, run, mainPc, llamaPc, gptPc, llamaResult, gpt, calls,
                   fusion, prediction, previous,
                   probe, other>>

(***************************************************************************)
(* predictPrice: the join and the fusion                                   *)
(***************************************************************************)
\* a join that does not wait for getPerplexityPrice
AllResolvedButSearch == llamaPc = "done" /\ gptPc = "done"

\* a join that does not wait for getLlamaPrice
AllResolvedButLlama == gptPc = "done" /\ pplxPc = "done"

\* Promise.all resolves when the three branches have resolved
AllResolved == llamaPc = "done" /\ gptPc = "done" /\ pplxPc = "done"

\* the locals of predictPrice from the three resolved values
Fusion(llama, gptResult, raw) ==
    LET gptPrice == gptResult.price
        neighborAvg == gptResult.neighborAveragePrice
        base == baselineSignals(llama, gptPrice, neighborAvg)
        pplx == perplexityPrice(raw, base)
        sigs == signals(llama, gptPrice, neighborAvg, pplx)
        e == ensemble(sigs, llama, gptPrice, pplx)
    IN  [baselineSignals |-> base, perplexityPrice |-> pplx, signals |-> sigs,
         finalPrice |-> e.finalPrice, method |-> e.method]

\* the object predictPrice returns
Prediction(llama, gptResult, f) ==
    [llamaPrice |-> llama, gptPrice |-> gptResult.price,
     perplexityPrice |-> f.perplexityPrice,
     finalPrice |-> Round2(f.finalPrice)]

\* everything after `await Promise.all`: baseline, sanity check, fusion, return
Fuse ==
    /\ mainPc = "await"
    /\ AllResolved
    /\ fusion' = Fusion(llamaResult, gpt.result, rawPerplexityPrice)
    /\ prediction' = Prediction(llamaResult, gpt.result, fusion')
    /\ mainPc' = "done"
    /\ UNCHANGED <<env, backend, run, llamaPc, gptPc, pplxPc, llamaResult, gpt,
                   rawPerplexityPrice, calls, previous,
                   probe, other>>

\* Promise.all rejects as soon as getGPTPrice rejects: predictPrice throws,
\* whatever the other branches are doing
Reject ==
    /\ mainPc = "await"
    /\ gptPc = "threw"
    /\ mainPc' = "threw"
    /\ UNCHANGED <<env, backend, run, llamaPc, gptPc, pplxPc, llamaResult, gpt,
                   rawPerplexityPrice, calls, fusion, prediction, previous,
                   probe, other>>

Next ==
    \/ CallPredictPrice
    \/ LlamaResponds
    \/ CategoryResponds
    \/ EmbeddingResponds
    \/ SearchResponds
    \/ SimpleResponds
    \/ RagResponds
    \/ CatchSimpleResponds
    \/ SonarFirstResponds
    \/ SonarRetryResponds
    \/ Fuse
    \/ Reject

Spec == Init /\ [][Next]_vars

\* every remote call eventually returns or fails, and the continuation that
\* waits for it then runs: a step that stays possible is eventually taken
InitLive ==
    /\ env \in PerplexityEnvs
    /\ backend = [Unscripted EXCEPT
                    !.llama = [kind |-> "ok", val |-> 40 * Dollar],
                    !.classifier = [kind |-> "ok", val |-> <<"Electronics">>],
                    !.embedding = [kind |-> "ok", val |-> 384]]
    /\ AgentIdle
    /\ probe = NoProbe

SpecLive == InitLive /\ [][Next]_vars /\ WF_vars(Next)

\* repeated calls against the same scripted backends
NextRerun == Next \/ CallAgain

\* for the repeated calls the hosted model (down, or answering 40.00) and the
\* classifier are scripted from the start; the other services are scripted
\* as they answer
InitRerun ==
    /\ env \in PerplexityEnvs
    /\ \E l \in {[kind |-> "neterr", val |-> 0], [kind |-> "ok", val |-> 40 * Dollar]} :
          backend = [Unscripted EXCEPT
                       !.llama = l,
                       !.classifier = [kind |-> "ok", val |-> <<"Electronics">>]]
    /\ AgentIdle
    /\ probe = NoProbe

SpecRerun == InitRerun /\ [][NextRerun]_vars

(***************************************************************************)
(* Two predictPrice calls in flight at once (two requests of the price     *)
(* check route, each with its own PricingAgent).  JavaScript runs one      *)
(* continuation at a time: the variables mainPc .. prediction are the      *)
(* working state of the call whose continuation runs next, `other` is the  *)
(* working state of the call that is suspended at its awaits.  Both calls  *)
(* are for the same description and get the same scripted responses.       *)
(***************************************************************************)
\* the working state of the call being advanced
Locals ==
    [mainPc |-> mainPc, llamaPc |-> llamaPc, gptPc |-> gptPc, pplxPc |-> pplxPc,
     llamaResult |-> llamaResult, gpt |-> gpt,
     rawPerplexityPrice |-> rawPerplexityPrice, calls |-> calls,
     fusion |-> fusion, prediction |-> prediction]

SettledIn(c) ==
    /\ c.mainPc \in {"done", "threw"}
    /\ c.llamaPc = "done"
    /\ c.gptPc \in {"done", "threw"}
    /\ c.pplxPc = "done"

\* a second request arrives while the first call awaits its branches: the
\* first call stays suspended with its locals, the new call starts
CallConcurrently ==
    /\ mainPc = "await"
    /\ other = NoCall
    /\ other' = Locals
    /\ StartRun
    /\ UNCHANGED previous

\* a switch after which the two calls work on one and the same `gpt` record
SwitchSharingGpt ==
    /\ other.mainPc # "idle"
    /\ ~SettledIn(other)
    /\ other' = Locals
    /\ mainPc' = other.mainPc
    /\ llamaPc' = other.llamaPc
    /\ gptPc' = other.gptPc
    /\ pplxPc' = other.pplxPc
    /\ llamaResult' = other.llamaResult
    /\ rawPerplexityPrice' = other.rawPerplexityPrice
    /\ calls' = other.calls
    /\ fusion' = other.fusion
    /\ prediction' = other.prediction
    /\ UNCHANGED <<env, backend, run, previous, probe, gpt>>

\* the event loop turns to the suspended call, which has a response pending;
\* each call finds its own locals as it left them
Switch ==
    /\ other.mainPc # "idle"
    /\ ~SettledIn(other)
    /\ other' = Locals
    /\ mainPc' = other.mainPc
    /\ llamaPc' = other.llamaPc
    /\ gptPc' = other.gptPc
    /\ pplxPc' = other.pplxPc
    /\ llamaResult' = other.llamaResult
    /\ gpt' = other.gpt
    /\ rawPerplexityPrice' = other.rawPerplexityPrice
    /\ calls' = other.calls
    /\ fusion' = other.fusion
    /\ prediction' = other.prediction
    /\ UNCHANGED <<env, backend, run, previous, probe>>

NextConcurrent == Next \/ CallConcurrently \/ Switch

\* for the concurrent calls the hosted model (answering 40.00), the
\* classifier, the embedding service and the first Sonar reply ("0", which
\* asks for the retry) are scripted from the start; the vector search and
\* the other chat replies are scripted as they answer
InitConcurrent ==
    /\ env \in {"disabled", "on"}
    /\ backend = [Unscripted EXCEPT
                    !.llama = [kind |-> "ok", val |-> 40 * Dollar],
                    !.classifier = [kind |-> "ok", val |-> <<"Electronics">>],
                    !.embedding = [kind |-> "ok", val |-> 384],
                    !.sonar1 = [kind |-> "ok", val |-> <<"0">>]]
    /\ AgentIdle
    /\ probe = NoProbe

SpecConcurrent == InitConcurrent /\ [][NextConcurrent]_vars

(***************************************************************************)
(* Properties of predictPrice                                              *)
(***************************************************************************)
\* the values the three branches handed to predictPrice
SourceValues ==
    <<llamaResult, gpt.result.price, gpt.result.neighborAveragePrice,
      rawPerplexityPrice>>

PositiveSources == {i \in 1..4 : Gt0(SourceValues[i])}

\* the positive hosted-model, LLM and neighbour-average values
PositiveBaseline == SelectSeq(SubSeq(SourceValues, 1, 3), LAMBDA v : Gt0(v))

\* the search-augmented value is positive and within [20%, 500%] of the
\* median of the other positive values, or there are none
SearchValuePasses ==
    /\ Gt0(rawPerplexityPrice)
    /\ \/ PositiveBaseline = <<>>
       \/ /\ 5 * rawPerplexityPrice >= median(PositiveBaseline)
          /\ rawPerplexityPrice <= 5 * median(PositiveBaseline)

\* the sources that are valid for fusion: positive and not rejected
ValidSignals ==
    PositiveBaseline \o (IF SearchValuePasses THEN <<rawPerplexityPrice>> ELSE <<>>)

\* C1: when two or more sources return positive values, finalPrice is the
\* median of exactly the sources that passed the outlier guard (to the cent)
C1_MedianOfAccepted ==
    (mainPc = "done" /\ Cardinality(PositiveSources) >= 2)
        => prediction.finalPrice = Round2(median(ValidSignals))

\* C2: when exactly one fusion input is valid, finalPrice is that value
\* (to the cent)
C2_SoleSignalUsed ==
    (mainPc = "done" /\ Len(ValidSignals) = 1)
        => prediction.finalPrice = Round2(ValidSignals[1])

\* C3: predictPrice never throws, whichever backend calls fail
C3_NeverThrows == mainPc # "threw"

\* every source is invalid: it failed, or gave no positive value
AllSourcesInvalid ==
    /\ llamaPc = "done" /\ ~Gt0(llamaResult)
    /\ \/ gptPc = "threw"
       \/ /\ gptPc = "done"
          /\ ~Gt0(gpt.result.price)
          /\ ~Gt0(gpt.result.neighborAveragePrice)
    /\ pplxPc = "done" /\ ~Gt0(rawPerplexityPrice)

\* C4: when every source is invalid, predictPrice returns finalPrice 0 with
\* method "All failed" as a normal result, it does not throw
C4_AllFailedIsAResult ==
    (AllSourcesInvalid /\ mainPc # "await")
        => /\ mainPc = "done"
           /\ prediction.finalPrice = 0
           /\ fusion.method = "All failed"

\* C5: the finalPrice predictPrice returns is >= 0 and a whole number of cents
C5_FinalPriceRounded ==
    mainPc = "done"
        => /\ IsFinite(prediction.finalPrice)
           /\ prediction.finalPrice >= 0
           /\ prediction.finalPrice % Cent = 0

\* C5 witness: a run whose fused price was not a whole number of cents
C5_Witness ==
    /\ mainPc = "done"
    /\ fusion.finalPrice % Cent # 0
    /\ prediction.finalPrice > 0

(***************************************************************************)
(* The helpers on their own: isReasonableSignal over candidates and        *)
(* baselines of any sign, and the neighbour filter over longer results     *)
(* than the concurrent model draws.                                        *)
(***************************************************************************)
MaxBaseline == 2
MaxRows == 4

GuardCandidates ==
    {NaN, 0, 0 - 5 * Dollar, 5 * Dollar, 10 * Dollar, 45 * Dollar,
     250 * Dollar, 25001 * Cent, 1000 * Dollar}

GuardValues == {0, 40 * Dollar, 50 * Dollar, 60 * Dollar}

GuardBaselines == UNION {[1..n -> GuardValues] : n \in 0..MaxBaseline}

InitGuard ==
    /\ env = "on"
    /\ backend = Unscripted
    /\ AgentIdle
    /\ \E c \in GuardCandidates, b \in GuardBaselines :
          probe = [op |-> "isReasonableSignal", candidate |-> c, baseline |-> b,
                   done |-> FALSE, result |-> FALSE]

\* isReasonableSignal(candidate, baseline) is evaluated
ApplyGuard ==
    /\ probe.op = "isReasonableSignal"
    /\ ~probe.done
    /\ probe' = [probe EXCEPT !.done = TRUE,
                              !.result = isReasonableSignal(probe.candidate,
                                                            probe.baseline)]
    /\ UNCHANGED <<env, backend, run, mainPc, llamaPc, gptPc, pplxPc, llamaResult,
                   gpt, rawPerplexityPrice, calls, fusion, prediction, previous, other>>

SpecGuard == InitGuard /\ [][ApplyGuard]_vars

FilterDistances == {10, 40, GOOD_NEIGHBOR_MAX_DISTANCE, 60, 90}
FilterPrices == {0, 40 * Dollar, 4501 * Cent}
FilterNeighbors == [price : FilterPrices, distance : FilterDistances]

\* results of the search: nearest first, at least one row
FilterLists ==
    {ns \in UNION {[1..n -> FilterNeighbors] : n \in 1..MaxRows} :
        \A i \in 1..(Len(ns) - 1) : ns[i].distance <= ns[i + 1].distance}

NoStats == [goodNeighbors |-> <<>>, topDistance |-> Null,
            neighborAveragePrice |-> 0, reported |-> Null]

InitFilter ==
    /\ env = "on"
    /\ backend = Unscripted
    /\ AgentIdle
    /\ \E ns \in FilterLists :
          probe = [op |-> "filter", similarProducts |-> ns, done |-> FALSE,
                   stats |-> NoStats]

\* step 3 of getGPTPrice is evaluated on the rows
ApplyFilter ==
    /\ probe.op = "filter"
    /\ ~probe.done
    /\ probe' = [probe EXCEPT !.done = TRUE,
                              !.stats = NeighborStats(probe.similarProducts)]
    /\ UNCHANGED <<env, backend, run, mainPc, llamaPc, gptPc, pplxPc, llamaResult,
                   gpt, rawPerplexityPrice, calls, fusion, prediction, previous, other>>

SpecFilter == InitFilter /\ [][ApplyFilter]_vars

(***************************************************************************)
(* Properties of the helpers and of the branches                           *)
(***************************************************************************)
GuardDone == probe.op = "isReasonableSignal" /\ probe.done

\* candidate below 20% / above 500% of the median of the baseline
BelowBand(c, b) == IsFinite(c) /\ 5 * c < median(b)
AboveBand(c, b) == IsFinite(c) /\ c > 5 * median(b)

\* arguments predictPrice can pass: a finite candidate that parsePrice
\* produced (never negative) and a baseline of positive values
FromPredictPrice ==
    /\ IsFinite(probe.candidate) /\ probe.candidate >= 0
    /\ \A i \in 1..Len(probe.baseline) : probe.baseline[i] > 0

\* C6 as stated: any candidate is accepted against an empty baseline, and
\* otherwise a candidate is rejected exactly when it lies outside the band
C6_GuardAsStated ==
    (GuardDone /\ FromPredictPrice) =>
        (probe.result <=>
            \/ Len(probe.baseline) = 0
            \/ ~(BelowBand(probe.candidate, probe.baseline)
                   \/ AboveBand(probe.candidate, probe.baseline)))

\* C6 amended: a candidate that is not a positive number is always rejected;
\* a positive one is accepted when the baseline is empty or has median 0, and
\* otherwise rejected exactly when it lies outside [20%, 500%] of the median
C6_Guard ==
    GuardDone =>
        (probe.result <=>
            /\ Gt0(probe.candidate)
            /\ \/ Len(probe.baseline) = 0
               \/ median(probe.baseline) = 0
               \/ ~(BelowBand(probe.candidate, probe.baseline)
                      \/ AboveBand(probe.candidate, probe.baseline)))

\* C6 witness: 10 against [40, 60], exactly 20% of the median 50, accepted
C6_Witness ==
    /\ GuardDone
    /\ probe.baseline = <<40 * Dollar, 60 * Dollar>>
    /\ probe.candidate = 10 * Dollar
    /\ probe.result

FilterDone == probe.op = "filter" /\ probe.done

\* rows within the threshold, and those of them that carry a price
Kept(sp) == {i \in 1..Len(sp) : sp[i].distance <= GOOD_NEIGHBOR_MAX_DISTANCE}
Priced(sp) == {i \in Kept(sp) : sp[i].price > 0}

RECURSIVE PriceSum(_, _)
PriceSum(sp, I) ==
    IF I = {} THEN 0
    ELSE LET i == CHOOSE k \in I : TRUE IN sp[i].price + PriceSum(sp, I \ {i})

\* C7: the filter keeps exactly the rows with distance <= 0.5 (rows come
\* nearest first, so they are the leading rows), and the neighbour average
\* fed to the prompt and to fusion is the mean price of the kept rows that
\* have a price > 0
C7_FilterAndMean ==
    FilterDone =>
        LET sp == probe.similarProducts
            st == probe.stats
        IN  /\ Kept(sp) = 1..Len(st.goodNeighbors)
            /\ st.goodNeighbors = SubSeq(sp, 1, Len(st.goodNeighbors))
            /\ Priced(sp) # {} =>
                 /\ st.neighborAveragePrice * Cardinality(Priced(sp))
                      = PriceSum(sp, Priced(sp))
                 /\ st.reported = st.neighborAveragePrice

\* C7 witness: distances 0.1, 0.4, 0.6, 0.9 keep the first two rows, whose
\* different prices are averaged
C7_Witness ==
    /\ FilterDone
    /\ [i \in 1..Len(probe.similarProducts) |-> probe.similarProducts[i].distance]
         = <<10, 40, 60, 90>>
    /\ Len(probe.stats.goodNeighbors) = 2
    /\ probe.similarProducts[1].price = 40 * Dollar
    /\ probe.similarProducts[2].price = 4501 * Cent
    /\ probe.stats.reported * 2 = 40 * Dollar + 4501 * Cent

\* retrieval gave no usable neighbour: the embedding or the search failed, or
\* the search returned no row within the threshold (possibly no row at all)
NoUsableNeighbours ==
    \/ backend.embedding.kind = "error"
    \/ backend.search.kind = "error"
    \/ /\ backend.search.kind = "ok"
       /\ Kept(backend.search.val) = {}

SonarOver == pplxPc = "done" /\ env = "on"
FirstUnusable ==
    /\ backend.sonar1.kind = "ok"
    /\ LET v == parsePrice(backend.sonar1.val) IN v = NaN \/ v <= 0
RetryUnusable ==
    /\ backend.sonar2.kind = "ok"
    /\ LET v == parsePrice(backend.sonar2.val) IN v = NaN \/ v <= 0
SonarCallFailed ==
    \/ backend.sonar1.kind = "error"
    \/ calls.sonar = 2 /\ backend.sonar2.kind = "error"

\* at most two calls; the second is made iff the first reply is unusable
SonarCallsAsStated ==
    /\ calls.sonar <= 2
    /\ pplxPc \in {"retry", "done"} /\ env = "on"
         => (calls.sonar = 2 <=> FirstUnusable)

\* C9 as stated: ... and when the retry is unusable too, or a call fails,
\* the result is NaN
C9_SonarAsStated ==
    /\ SonarCallsAsStated
    /\ (SonarOver /\ (SonarCallFailed \/ (calls.sonar = 2 /\ RetryUnusable)))
         => rawPerplexityPrice = NaN

\* C9 amended: at most two calls, the second iff the first reply is unusable;
\* the result is NaN when a call fails or the retry's reply has no number,
\* and otherwise the number parsed from the last reply (0 for a retry that
\* says 0)
C9_Sonar ==
    /\ SonarCallsAsStated
    /\ (SonarOver /\ SonarCallFailed) => rawPerplexityPrice = NaN
    /\ (SonarOver /\ ~SonarCallFailed) =>
         rawPerplexityPrice =
             parsePrice(IF calls.sonar = 2 THEN backend.sonar2.val
                        ELSE backend.sonar1.val)
    /\ pplxPc = "done" /\ env # "on" => calls.sonar = 0 /\ rawPerplexityPrice = NaN

\* C9 witness: both replies said 0; the retry was made and 0 was returned
C9_Witness ==
    /\ SonarOver
    /\ calls.sonar = 2
    /\ backend.sonar1.val = <<"0">>
    /\ rawPerplexityPrice = 0

\* C10: a repeated call against the same backend scripts ends the same way,
\* with the same finalPrice and method, whatever the order of the responses
C10_Deterministic ==
    (Settled /\ previous.status # "none") =>
        /\ previous.status = Outcome.status
        /\ previous.prediction.finalPrice = prediction.finalPrice
        /\ previous.method = fusion.method

\* C10 witness: the second call has returned a median of several signals
C10_Witness ==
    /\ Settled
    /\ run = 2
    /\ mainPc = "done"
    /\ previous.status = "returned"
    /\ Len(fusion.signals) >= 3
    /\ rawPerplexityPrice > 0

(***************************************************************************)
(* detectCategory on its own, over replies of up to MaxReplyLen pieces     *)
(***************************************************************************)
MaxReplyLen == 3

ReplyPieces ==
    {"Electronics", "Appliances", "Toys", "_and_", "Games", ", probably",
     "electronics", "I'm not sure"}

\* the classifier call throws, or message.content is the reply (<<>>: empty)
CategoryReplies ==
    {[kind |-> "error", val |-> <<>>]}
      \cup {[kind |-> "ok", val |-> t] :
               t \in UNION {[1..n -> ReplyPieces] : n \in 0..MaxReplyLen}}

InitCategory ==
    /\ env = "on"
    /\ backend = Unscripted
    /\ AgentIdle
    /\ \E r \in CategoryReplies :
          probe = [op |-> "detectCategory", response |-> r, done |-> FALSE,
                   result |-> NullCategory]

\* detectCategory resolves for the response of the classifier
ApplyCategory ==
    /\ probe.op = "detectCategory"
    /\ ~probe.done
    /\ probe' = [probe EXCEPT !.done = TRUE,
                              !.result = detectCategory(probe.response)]
    /\ UNCHANGED <<env, backend, run, mainPc, llamaPc, gptPc, pplxPc, llamaResult,
                   gpt, rawPerplexityPrice, calls, fusion, prediction, previous, other>>

SpecCategory == InitCategory /\ [][ApplyCategory]_vars

CategoryDone == probe.op = "detectCategory" /\ probe.done

\* the i-th allowed category occurs somewhere in the reply
ContainsCategory(reply, i) ==
    \E a, b \in 0..Len(reply) :
        SubSeq(reply, a + 1, b) = Spelling(ALLOWED_CATEGORIES[i])

\* C11: detectCategory returns an allowed category exactly when the reply
\* contains it and no earlier category of the list, returns null when the
\* reply contains none of the eight, and returns null when the call fails
C11_DetectCategory ==
    CategoryDone =>
        LET r == probe.response
            found == {i \in 1..Len(ALLOWED_CATEGORIES) :
                        r.kind = "ok" /\ ContainsCategory(r.val, i)}
        IN  /\ Len(ALLOWED_CATEGORIES) = 8
            /\ \A i \in 1..Len(ALLOWED_CATEGORIES) :
                  probe.result = ALLOWED_CATEGORIES[i]
                      <=> (i \in found /\ \A j \in found : i <= j)
            /\ found = {} => probe.result = NullCategory
            /\ r.kind = "error" => probe.result = NullCategory

\* C11 witness: "Appliances ... Electronics, probably" holds two categories
\* and the one that comes first in the list is returned
C11_Witness ==
    /\ CategoryDone
    /\ probe.response.kind = "ok"
    /\ probe.response.val = <<"Appliances", "Electronics", ", probably">>
    /\ probe.result = "Electronics"

(***************************************************************************)
(* Properties of the returned Prediction and of the signal sources         *)
(***************************************************************************)
\* C12: the Prediction predictPrice returns holds, for every source, the raw
\* value the source resolved to (also when it is invalid or was rejected by
\* the outlier guard), and the method label of the fusion path
C12_RawPerSourceAndMethod ==
    mainPc = "done" =>
        /\ prediction.llamaPrice = llamaResult
        /\ prediction.gptPrice = gpt.result.price
        /\ prediction.perplexityPrice = rawPerplexityPrice
        /\ "method" \in DOMAIN prediction

\* a price that is non-negative, or the invalid sentinel NaN
NonNegativeOrSentinel(v) == v = NaN \/ (IsFinite(v) /\ v >= 0)

\* C13: no source hands predictPrice a negative price, and no per-source
\* price of the returned Prediction is negative
C13_NoNegativeSignal ==
    /\ llamaPc = "done" => NonNegativeOrSentinel(llamaResult)
    /\ gptPc = "done" => NonNegativeOrSentinel(gpt.result.price)
    /\ pplxPc = "done" => NonNegativeOrSentinel(rawPerplexityPrice)
    /\ mainPc = "done" =>
         /\ NonNegativeOrSentinel(prediction.llamaPrice)
         /\ NonNegativeOrSentinel(prediction.gptPrice)
         /\ NonNegativeOrSentinel(prediction.perplexityPrice)

\* the hosted service did not answer with a usable body
LlamaFailed == backend.llama.kind \in {"neterr", "badjson", "notok", "errbody"}
LlamaNoPrice == backend.llama.kind = "ok" /\ backend.llama.val = Null

MaxTextLen == 3

TextChars == {"0", "1", "5", ".", ",", "a"}

Texts == UNION {[1..n -> TextChars] : n \in 0..MaxTextLen}

\* text.replace(/[^0-9.]/g, '') of the three-signal variant
StripNonNumeric(text) == SelectSeq(text, LAMBDA c : c \in Digits \/ c = ".")

\* parseFloat of a string of digits and dots: the leading digits, then a dot
\* and the digits after it; NaN when there is no digit to read
ParseFloatPrefix(str) ==
    LET i == DigitRunEnd(str, 0)
        dot == i < Len(str) /\ str[i + 1] = "."
        j == IF dot THEN DigitRunEnd(str, i + 1) ELSE i
        fr == IF dot THEN SubSeq(str, i + 2, j) ELSE <<>>
    IN  IF i = 0 /\ fr = <<>> THEN NaN
        ELSE DigitsValue(SubSeq(str, 1, i)) * Dollar
               + (DigitsValue(fr) * Dollar) \div Pow10(Len(fr))

\* parsePrice of the three-signal variant: 0, not NaN, on failure
parsePrice3(text) ==
    IF text = <<>> THEN 0
    ELSE LET num == ParseFloatPrefix(StripNonNumeric(text))
         IN  IF IsFinite(num) THEN num ELSE 0

NoParse == [parsed |-> NaN, direct |-> 0, parsed3 |-> 0]

InitParse ==
    /\ env = "on"
    /\ backend = Unscripted
    /\ AgentIdle
    /\ \E t \in Texts :
          probe = [op |-> "parsePrice", text |-> t, done |-> FALSE, out |-> NoParse]

\* the reply is parsed: parsePrice, the direct LLM signal made of it
\* (getSimpleGPTPrice), and parsePrice of the three-signal variant
ApplyParse ==
    /\ probe.op = "parsePrice"
    /\ ~probe.done
    /\ probe' = [probe EXCEPT
                    !.done = TRUE,
                    !.out = [parsed |-> parsePrice(probe.text),
                             direct |-> FiniteOrZero(parsePrice(probe.text)),
                             parsed3 |-> parsePrice3(probe.text)]]
    /\ UNCHANGED <<env, backend, run, mainPc, llamaPc, gptPc, pplxPc, llamaResult,
                   gpt, rawPerplexityPrice, calls, fusion, prediction, previous, other>>

SpecParse == InitParse /\ [][ApplyParse]_vars

ParseDone == probe.op = "parsePrice" /\ probe.done

\* an integer or a decimal: digits, or digits "." digits
IsNumeral(tok) ==
    /\ Len(tok) >= 1
    /\ \/ \A k \in 1..Len(tok) : tok[k] \in Digits
       \/ \E d \in 2..(Len(tok) - 1) :
            /\ tok[d] = "."
            /\ \A k \in (1..Len(tok)) \ {d} : tok[k] \in Digits

\* value of the first (leftmost, longest) numeral of the text, NaN without one
FirstNumberOrNaN(text) ==
    LET starts == {i \in 1..Len(text) : text[i] \in Digits}
    IN  IF starts = {} THEN NaN
        ELSE LET i == CHOOSE k \in starts : \A m \in starts : k <= m
                 ends == {j \in i..Len(text) : IsNumeral(SubSeq(text, i, j))}
                 j == CHOOSE k \in ends : \A m \in ends : m <= k
             IN  ParseFloat(SubSeq(text, i, j))

\* parsePrice of the four-signal agent keeps the contract
ParsePriceConforms ==
    ParseDone =>
        /\ probe.out.parsed = FirstNumberOrNaN(probe.text)
        /\ probe.out.direct = IF FirstNumberOrNaN(probe.text) = NaN THEN 0
                               ELSE FirstNumberOrNaN(probe.text)

\* parsePrice of the three-signal variant keeps the contract
ParsePrice3Conforms ==
    ParseDone => probe.out.parsed3 = FirstNumberOrNaN(probe.text)

\* C15: parsePrice returns the value of the first integer or decimal in the
\* reply and NaN when there is none, in both variants of the agent; the
\* direct LLM signal turns an unparsable reply into 0
C15_FirstNumberOrNaN == ParsePriceConforms /\ ParsePrice3Conforms

(***************************************************************************)
(* median on its own, over lists of up to MaxSignals valid signals         *)
(***************************************************************************)
MaxSignals == 4

SignalValues == {40 * Dollar, 4501 * Cent, 60 * Dollar}

SignalLists == UNION {[1..n -> SignalValues] : n \in 0..MaxSignals}

InitMedian ==
    /\ env = "on"
    /\ backend = Unscripted
    /\ AgentIdle
    /\ \E v \in SignalLists :
          probe = [op |-> "median", values |-> v, done |-> FALSE, result |-> 0]

\* median(signals) is evaluated
ApplyMedian ==
    /\ probe.op = "median"
    /\ ~probe.done
    /\ probe' = [probe EXCEPT !.done = TRUE, !.result = median(probe.values)]
    /\ UNCHANGED <<env, backend, run, mainPc, llamaPc, gptPc, pplxPc, llamaResult,
                   gpt, rawPerplexityPrice, calls, fusion, prediction, previous, other>>

SpecMedian == InitMedian /\ [][ApplyMedian]_vars

MedianDone == probe.op = "median" /\ probe.done

\* the rearrangements of a list of n elements
Perms(n) == {f \in [1..n -> 1..n] : \A i, j \in 1..n : f[i] = f[j] => i = j}
Permuted(values, f) == [i \in 1..Len(values) |-> values[f[i]]]

\* C16: median gives the same value for every rearrangement of the list of
\* valid signals, and so does the fused price of two or more signals
C16_MedianOrderIndependent ==
    MedianDone =>
        \A f \in Perms(Len(probe.values)) :
            LET p == Permuted(probe.values, f)
            IN  /\ median(p) = probe.result
                /\ Len(p) >= 2 => ensemble(p, 0, 0, 0).finalPrice = probe.result

\* C16 witness: three different signals given in descending-then-mixed order
C16_Witness ==
    /\ MedianDone
    /\ probe.values = <<60 * Dollar, 40 * Dollar, 4501 * Cent>>
    /\ probe.result = 4501 * Cent

(***************************************************************************)
(* The ensemble the README describes                                       *)
(***************************************************************************)
\* C17: when the hosted model and the LLM branch both gave a price, the
\* fair price is 70% of the former plus 30% of the latter
C17_WeightedEnsemble ==
    (mainPc = "done" /\ Gt0(llamaResult) /\ Gt0(gpt.result.price)) =>
        prediction.finalPrice
            = Round2((7 * llamaResult + 3 * gpt.result.price) \div 10)

(***************************************************************************)
(* Ordering: the join of predictPrice and the chain inside getGPTPrice     *)
(***************************************************************************)
\* C19: the three branches are started together by the call, and the
\* outlier screening and the fusion run only when all three have resolved,
\* on the values they resolved to
C19_JoinBeforeFusion ==
    /\ mainPc # "idle" => llamaPc # "idle" /\ gptPc # "idle" /\ pplxPc # "idle"
    /\ (mainPc = "done" \/ fusion # NoFusion) =>
         /\ llamaPc = "done" /\ gptPc = "done" /\ pplxPc = "done"
         /\ llamaResult # Null
         /\ gpt.result # NoResult
         /\ rawPerplexityPrice # Null
         /\ prediction.llamaPrice = llamaResult
         /\ prediction.gptPrice = gpt.result.price

\* C19 witness: a call that returned after the retrieval-augmented call and
\* the Sonar retry had both been made
C19_Witness ==
    /\ mainPc = "done"
    /\ calls.rag = 1
    /\ calls.sonar = 2
    /\ llamaResult > 0

\* C20: the vector search is issued only after the embedding has returned,
\* and the retrieval-augmented call only after the classification and the
\* search have returned
C20_RetrievalOrder ==
    /\ calls.search > 0 => backend.embedding.kind = "ok"
    /\ calls.rag > 0 =>
         /\ backend.classifier.kind # "unset"
         /\ backend.search.kind = "ok"
         /\ gptPc \in {"rag", "catchSimple", "done", "threw"}

\* C20 witness: the retrieval-augmented call was made for a classified
\* description and answered
C20_Witness ==
    /\ calls.rag = 1
    /\ gptPc = "done"
    /\ gpt.detectedCategory = "Electronics"
    /\ gpt.result.neighborCount > 0

(***************************************************************************)
(* Concurrent calls                                                        *)
(***************************************************************************)
\* what a call running alone makes of the scripted responses: the value of
\* each branch, read off the scripts in the order the code consults them
AloneLlama == getLlamaPrice(backend.llama)

AlonePerplexity ==
    IF env # "on" \/ backend.sonar1.kind # "ok" THEN NaN
    ELSE IF ~NeedsRetry(parsePrice(backend.sonar1.val))
    THEN parsePrice(backend.sonar1.val)
    ELSE IF backend.sonar2.kind = "ok" THEN parsePrice(backend.sonar2.val)
    ELSE NaN

AloneCatch(slot) ==
    IF backend[slot].kind = "ok"
    THEN [threw |-> FALSE,
          result |-> FallbackResult(FiniteOrZero(parsePrice(backend[slot].val)),
                                    Null)]
    ELSE [threw |-> TRUE, result |-> NoResult]

AloneSimple(top) ==
    IF backend.simple1.kind = "ok"
    THEN [threw |-> FALSE,
          result |-> FallbackResult(FiniteOrZero(parsePrice(backend.simple1.val)),
                                    top)]
    ELSE AloneCatch("simple2")

AloneGpt ==
    IF backend.embedding.kind # "ok" \/ backend.search.kind # "ok"
    THEN AloneCatch("simple1")
    ELSE IF Len(backend.search.val) = 0 THEN AloneSimple(Null)
    ELSE LET st == NeighborStats(backend.search.val)
         IN  IF Len(st.goodNeighbors) = 0 THEN AloneSimple(st.topDistance)
             ELSE IF backend.rag.kind # "ok" THEN AloneCatch("simple1")
             ELSE [threw |-> FALSE,
                   result |-> RagResult(FiniteOrZero(parsePrice(backend.rag.val)),
                                        st.goodNeighbors,
                                        st.neighborAveragePrice,
                                        st.topDistance)]

AloneOutcome ==
    IF AloneGpt.threw THEN [NoOutcome EXCEPT !.status = "threw"]
    ELSE LET f == Fusion(AloneLlama, AloneGpt.result, AlonePerplexity)
         IN  [status |-> "returned",
              prediction |-> Prediction(AloneLlama, AloneGpt.result, f),
              method |-> f.method]

OutcomeOf(c) ==
    [status |-> IF c.mainPc = "done" THEN "returned" ELSE "threw",
     prediction |-> c.prediction,
     method |-> c.fusion.method]

\* each call that is over ended the way a call running alone ends
ResultsAsAlone ==
    /\ Settled => OutcomeOf(Locals) = AloneOutcome
    /\ SettledIn(other) => OutcomeOf(other) = AloneOutcome

\* a step leaves the suspended call's working state as it is, or suspends
\* the running call with the working state it has
LocalsStayPrivate == other' = other \/ other' = Locals

\* the rows the product index returned for the description never change
IndexReadOnly == backend.search.kind # "unset" => backend'.search = backend.search

\* C18: concurrent calls do not interfere: each ends with the result of a
\* call running alone on the same responses, no step of one call touches
\* the working state of the other, and no step changes the product index
C18_NoInterference ==
    /\ []ResultsAsAlone
    /\ [][LocalsStayPrivate /\ IndexReadOnly]_vars

\* C18 witness: two overlapping calls both returned, each after its own
\* retrieval-augmented call and Sonar retry
C18_Witness ==
    /\ run = 2
    /\ Settled /\ SettledIn(other)
    /\ mainPc = "done" /\ other.mainPc = "done"
    /\ calls.rag = 1 /\ other.calls.rag = 1
    /\ calls.sonar = 2 /\ other.calls.sonar = 2
    /\ prediction.finalPrice > 0

(***************************************************************************)
(* The top-1 distance                                                      *)
(***************************************************************************)
\* C21: whenever the vector search returned at least one row, the result of
\* getGPTPrice carries the distance of the first (nearest) row as
\* topDistance, whichever path produced the price
C21_TopDistanceRecorded ==
    (gptPc = "done" /\ backend.search.kind = "ok" /\ Len(backend.search.val) >= 1)
        => gpt.result.topDistance = backend.search.val[1].distance

(***************************************************************************)
(* The three-signal variant: getGPTPrice from the result of the vector     *)
(* search on (soft policy: the retrieval-augmented call is made for any    *)
(* rows, the neighbour average is reported only for near, priced rows)     *)
(***************************************************************************)
RAG_DISTANCE_THRESHOLD == 60

MaxSoftRows == 2

\* results of the search of the variant: nearest first, possibly no row
SoftLists ==
    {ns \in UNION {[1..n -> FilterNeighbors] : n \in 0..MaxSoftRows} :
        \A i \in 1..(Len(ns) - 1) : ns[i].distance <= ns[i + 1].distance}

SoftReplies == {<<"n", "/", "a">>, <<"6", "0">>}

\* the neighbour statistics with the threshold itself counted as too far
NeighborStats3Exclusive(similarProducts) ==
    LET ps == prices(similarProducts)
        top == topDistanceOf(similarProducts)
    IN  [prices |-> ps,
         neighborAveragePrice |-> neighborAveragePrice(ps),
         topDistance |-> top,
         useNeighbors |-> ~(IsFinite(top) /\ top >= RAG_DISTANCE_THRESHOLD)
                            /\ Len(ps) > 0]

\* step 3 of the variant and its neighbour quality check, for a non-empty
\* result: prices and average of all rows, the top-1 distance, useNeighbors
NeighborStats3(similarProducts) ==
    LET ps == prices(similarProducts)
        top == topDistanceOf(similarProducts)
    IN  [prices |-> ps,
         neighborAveragePrice |-> neighborAveragePrice(ps),
         topDistance |-> top,
         useNeighbors |-> ~(IsFinite(top) /\ top > RAG_DISTANCE_THRESHOLD)
                            /\ Len(ps) > 0]

\* the catch block of the variant: one context-free call, not guarded
Catch3(catch, ragCalls, simpleCalls) ==
    IF catch.kind = "ok"
    THEN [status |-> "returned", ragCalls |-> ragCalls,
          simpleCalls |-> simpleCalls + 1,
          result |-> FallbackResult(parsePrice3(catch.val), Null)]
    ELSE [status |-> "threw", ragCalls |-> ragCalls,
          simpleCalls |-> simpleCalls + 1, result |-> NoResult]

\* getGPTPrice of the variant once the rows are there, for the responses of
\* the retrieval-augmented call, of the context-free call of the try block
\* and of the context-free call of the catch block
getGPTPrice3(similarProducts, rag, simple, catch) ==
    IF Len(similarProducts) = 0
    THEN IF simple.kind = "ok"
         THEN [status |-> "returned", ragCalls |-> 0, simpleCalls |-> 1,
               result |-> FallbackResult(parsePrice3(simple.val), Null)]
         ELSE Catch3(catch, 0, 1)
    ELSE LET st == NeighborStats3(similarProducts)
         IN  IF rag.kind # "ok" THEN Catch3(catch, 1, 0)
             ELSE [status |-> "returned", ragCalls |-> 1, simpleCalls |-> 0,
                   result |->
                     [price |-> PriceOrZero(parsePrice3(rag.val)),
                      neighborAveragePrice |->
                          IF st.useNeighbors /\ Len(st.prices) > 0
                          THEN st.neighborAveragePrice ELSE Null,
                      neighborCount |-> Len(similarProducts),
                      topDistance |-> st.topDistance]]

NoSoft == [status |-> "none", ragCalls |-> 0, simpleCalls |-> 0, result |-> NoResult]

InitSoft ==
    /\ env = "on"
    /\ backend = Unscripted
    /\ AgentIdle
    /\ \E ns \in SoftLists, r, t, c \in ChatResponses(SoftReplies) :
          probe = [op |-> "getGPTPrice3", similarProducts |-> ns, rag |-> r,
                   simple |-> t, catch |-> c, done |-> FALSE, out |-> NoSoft]

\* the variant's getGPTPrice runs from the rows to its result
ApplySoft ==
    /\ probe.op = "getGPTPrice3"
    /\ ~probe.done
    /\ probe' = [probe EXCEPT
                    !.done = TRUE,
                    !.out = getGPTPrice3(probe.similarProducts, probe.rag,
                                         probe.simple, probe.catch)]
    /\ UNCHANGED <<env, backend, run, mainPc, llamaPc, gptPc, pplxPc, llamaResult,
                   gpt, rawPerplexityPrice, calls, fusion, prediction, previous,
                   other>>

SpecSoft == InitSoft /\ [][ApplySoft]_vars

SoftDone == probe.op = "getGPTPrice3" /\ probe.done

\* the nearest row is within 0.6 and some retrieved row has a price > 0
NearAndPriced(sp) ==
    /\ Len(sp) >= 1
    /\ sp[1].distance <= 60
    /\ \E i \in 1..Len(sp) : sp[i].price > 0

\* the retrieval-augmented call is made exactly when a row was retrieved
RagCalledForRows == probe.out.ragCalls = (IF Len(probe.similarProducts) >= 1 THEN 1 ELSE 0)

\* C22 as stated: ... and a result reports a neighbour average if and only
\* if the nearest row is within 0.6 and some row has a positive price
C22_SoftPolicyAsStated ==
    SoftDone =>
        /\ RagCalledForRows
        /\ probe.out.status = "returned" =>
             (probe.out.result.neighborAveragePrice # Null
                 <=> NearAndPriced(probe.similarProducts))

\* C22 amended: the retrieval-augmented call is made exactly when a row was
\* retrieved; when it answers, the result reports a neighbour average if
\* and only if the nearest row is within 0.6 and some row has a positive
\* price; when it fails, the result of the catch block reports none
C22_SoftPolicy ==
    SoftDone =>
        /\ RagCalledForRows
        /\ (probe.out.ragCalls = 1 /\ probe.rag.kind = "ok") =>
             /\ probe.out.status = "returned"
             /\ probe.out.result.neighborAveragePrice # Null
                   <=> NearAndPriced(probe.similarProducts)
        /\ (probe.out.status = "returned"
              /\ ~(probe.out.ragCalls = 1 /\ probe.rag.kind = "ok")) =>
             probe.out.result.neighborAveragePrice = Null

\* C22 witness: the nearest row is exactly at 0.6 and has no price, a row at
\* 0.9 is priced 40.00: the call is made and 40.00 is reported
C22_Witness ==
    /\ SoftDone
    /\ Len(probe.similarProducts) = 2
    /\ probe.similarProducts[1] = [price |-> 0, distance |-> 60]
    /\ probe.similarProducts[2] = [price |-> 40 * Dollar, distance |-> 90]
    /\ probe.out.ragCalls = 1
    /\ probe.out.result.neighborAveragePrice = 40 * Dollar

(***************************************************************************)
(* The fusion step on its own, in both variants, over the values the       *)
(* branches can hand to predictPrice                                       *)
(***************************************************************************)
\* signals of the three-signal variant
signals3(llama, gptPrice, neighborAvg) ==
    (IF Gt0(llama) THEN <<llama>> ELSE <<>>)
      \o (IF Gt0(gptPrice) THEN <<gptPrice>> ELSE <<>>)
      \o (IF Gt0(neighborAvg) THEN <<neighborAvg>> ELSE <<>>)

\* a ladder of the variant that takes the mean of the signals
ensemble3Mean(sigs, llama, gptPrice) ==
    IF Len(sigs) >= 2
    THEN [finalPrice |-> SumSeq(sigs) \div Len(sigs), method |-> "Mean"]
    ELSE IF Gt0(llama) THEN [finalPrice |-> llama, method |-> "Llama only"]
    ELSE IF Gt0(gptPrice) THEN [finalPrice |-> gptPrice, method |-> "GPT only"]
    ELSE [finalPrice |-> 0, method |-> "Both failed"]

\* the ladder of the three-signal variant
ensemble3(sigs, llama, gptPrice) ==
    IF Len(sigs) >= 2
    THEN [finalPrice |-> median(sigs),
          method |-> IF Len(sigs) = 3
                     THEN "Median of Llama + GPT + neighbor avg"
                     ELSE "Median of available signals"]
    ELSE IF Gt0(llama) THEN [finalPrice |-> llama, method |-> "Llama only"]
    ELSE IF Gt0(gptPrice) THEN [finalPrice |-> gptPrice, method |-> "GPT only"]
    ELSE [finalPrice |-> 0, method |-> "Both failed"]

\* the locals of the variant's predictPrice from the two resolved values
Fusion3(llama, gptResult) ==
    LET sigs == signals3(llama, gptResult.price, gptResult.neighborAveragePrice)
        e == ensemble3(sigs, llama, gptResult.price)
    IN  [signals |-> sigs, finalPrice |-> e.finalPrice, method |-> e.method]

\* values of getLlamaPrice, of gptResult.price, of gptResult.neighborAveragePrice
\* (null or a mean of positive prices) and of getPerplexityPrice
FusionLlama == {0, 0 - 5 * Dollar, 40 * Dollar, 1000 * Dollar}
FusionGpt == {0, 60 * Dollar, 1000 * Dollar}
FusionNeighborAvg == {Null, 40 * Dollar, 4501 * Cent}
FusionRaw == {NaN, 0, 8 * Dollar, 45 * Dollar, 200 * Dollar, 20001 * Cent,
              1000 * Dollar}

NoFusion3 == [signals |-> <<>>, finalPrice |-> 0, method |-> "Unknown"]

InitFusion ==
    /\ env = "on"
    /\ backend = Unscripted
    /\ AgentIdle
    /\ \E l \in FusionLlama, g \in FusionGpt, n \in FusionNeighborAvg,
          x \in FusionRaw :
          probe = [op |-> "fusion", llamaPrice |-> l,
                   gptResult |-> [NoResult EXCEPT !.price = g,
                                                  !.neighborAveragePrice = n],
                   rawPerplexityPrice |-> x, done |-> FALSE,
                   four |-> NoFusion, three |-> NoFusion3]

\* the part of predictPrice after the join runs on the resolved values, in
\* the four-signal agent and in the three-signal variant
ApplyFusion ==
    /\ probe.op = "fusion"
    /\ ~probe.done
    /\ probe' = [probe EXCEPT
                    !.done = TRUE,
                    !.four = Fusion(probe.llamaPrice, probe.gptResult,
                                    probe.rawPerplexityPrice),
                    !.three = Fusion3(probe.llamaPrice, probe.gptResult)]
    /\ UNCHANGED <<env, backend, run, mainPc, llamaPc, gptPc, pplxPc, llamaResult,
                   gpt, rawPerplexityPrice, calls, fusion, prediction, previous,
                   other>>

SpecFusion == InitFusion /\ [][ApplyFusion]_vars

FusionDone == probe.op = "fusion" /\ probe.done

\* the positive ones among the hosted-model, LLM and neighbour-average values
ProbeBaseline ==
    SelectSeq(<<probe.llamaPrice, probe.gptResult.price,
                probe.gptResult.neighborAveragePrice>>, LAMBDA v : Gt0(v))

\* the search-augmented value is positive and, when there is a baseline,
\* within [0.2x, 5x] of its median
ProbeRawPasses ==
    /\ Gt0(probe.rawPerplexityPrice)
    /\ \/ ProbeBaseline = <<>>
       \/ /\ 5 * probe.rawPerplexityPrice >= median(ProbeBaseline)
          /\ probe.rawPerplexityPrice <= 5 * median(ProbeBaseline)

\* C23: only the search-augmented value is screened: the baseline is made of
\* the positive hosted-model, LLM and neighbour-average values, all of which
\* enter fusion, and the search-augmented value enters exactly when it is
\* positive and within [0.2x, 5x] of the median of a non-empty baseline
C23_OnlySearchScreened ==
    FusionDone =>
        /\ probe.four.baselineSignals = ProbeBaseline
        /\ probe.four.signals
             = ProbeBaseline \o (IF ProbeRawPasses
                                 THEN <<probe.rawPerplexityPrice>> ELSE <<>>)

\* C23 witness: a hosted-model value of 1000 next to 60 and 40 enters
\* fusion, a search-augmented value of 1000 is kept out
C23_Witness ==
    /\ FusionDone
    /\ probe.rawPerplexityPrice = 1000 * Dollar
    /\ probe.four.signals = <<1000 * Dollar, 60 * Dollar, 40 * Dollar>>

SeqMin(q) == CHOOSE v \in {q[i] : i \in 1..Len(q)} : \A i \in 1..Len(q) : v <= q[i]
SeqMax(q) == CHOOSE v \in {q[i] : i \in 1..Len(q)} : \A i \in 1..Len(q) : v >= q[i]

\* C24: the unrounded finalPrice of two or more signals lies between the
\* smallest and the largest of them, and a non-zero finalPrice goes with at
\* least one positive signal
C24_FinalWithinSignals ==
    FusionDone =>
        LET f == probe.four
        IN  /\ Len(f.signals) >= 2 =>
                 /\ SeqMin(f.signals) <= f.finalPrice
                 /\ f.finalPrice <= SeqMax(f.signals)
            /\ f.finalPrice # 0 =>
                 /\ Len(f.signals) >= 1
                 /\ \A i \in 1..Len(f.signals) : f.signals[i] > 0
                 /\ f.finalPrice > 0

\* C24 witness: four signals, and a finalPrice strictly inside their range
C24_Witness ==
    /\ FusionDone
    /\ Len(probe.four.signals) = 4
    /\ SeqMin(probe.four.signals) < probe.four.finalPrice
    /\ probe.four.finalPrice < SeqMax(probe.four.signals)

\* C26: when the search-augmented value is invalid (NaN, 0 or rejected) the
\* fusion of the four-signal agent gives the finalPrice of the fusion of the
\* three-signal variant, before and after rounding
C26_SameAsThreeSignal ==
    (FusionDone /\ probe.four.perplexityPrice = 0) =>
        /\ probe.four.finalPrice = probe.three.finalPrice
        /\ Round2(probe.four.finalPrice) = Round2(probe.three.finalPrice)
        /\ probe.four.signals = probe.three.signals

\* C26 witness: a rejected search-augmented value and three other signals
C26_Witness ==
    /\ FusionDone
    /\ probe.rawPerplexityPrice = 1000 * Dollar
    /\ probe.four.perplexityPrice = 0
    /\ Len(probe.three.signals) = 3
    /\ probe.three.finalPrice = 4501 * Cent

(***************************************************************************)
(* The baseline of the outlier guard inside predictPrice                   *)
(***************************************************************************)
\* C30: the baseline predictPrice passes to the guard holds only values > 0,
\* so the median of a non-empty baseline is > 0 and the guard never takes
\* its `med === 0` branch
C30_BaselinePositive ==
    mainPc = "done" =>
        /\ \A i \in 1..Len(fusion.baselineSignals) : fusion.baselineSignals[i] > 0
        /\ Len(fusion.baselineSignals) > 0 => median(fusion.baselineSignals) > 0

\* C30 witness: the guard was called on a finite value against a baseline of
\* two values, and rejected it
C30_Witness ==
    /\ mainPc = "done"
    /\ IsFinite(rawPerplexityPrice)
    /\ Len(fusion.baselineSignals) >= 2
    /\ rawPerplexityPrice > 0
    /\ fusion.perplexityPrice = 0

(***************************************************************************)
(* Termination and the number of remote calls                              *)
(***************************************************************************)
\* a predictPrice call that was made is eventually over
EventuallyOver == (mainPc = "await") ~> (mainPc \in {"done", "threw"})

\* one call of each of the hosted model, the classifier, the embedding and
\* the search at most, and at most two Sonar calls (one retry)
CallsBounded ==
    /\ calls.llama <= 1 /\ calls.classifier <= 1
    /\ calls.embedding <= 1 /\ calls.search <= 1 /\ calls.rag <= 1
    /\ calls.sonar <= 2

\* C25 as stated: every call is eventually over, with a bounded number of
\* remote calls, one Sonar retry at most and one context-free call at most
C25_TerminatesAsStated ==
    /\ EventuallyOver
    /\ [](CallsBounded /\ calls.simple <= 1)

\* C25 amended: every call is eventually over (it returns, or throws when
\* getGPTPrice rejects), with a bounded number of remote calls: one Sonar
\* retry at most, and two context-free calls at most, the second one made
\* by the catch block after the first one failed
C25_Terminates ==
    /\ EventuallyOver
    /\ [](/\ CallsBounded
          /\ calls.simple <= 2
          /\ calls.simple + calls.rag <= 2
          /\ calls.simple = 2 =>
               (calls.rag = 0 /\ backend.simple1.kind = "error"))

\* C25 witness: a call that is over after the largest number of remote
\* calls: two context-free calls and two Sonar calls
C25_Witness ==
    /\ mainPc = "done"
    /\ calls.simple = 2
    /\ calls.sonar = 2
    /\ calls.llama + calls.classifier + calls.embedding + calls.search = 4

(***************************************************************************)
(* PlanningAgent.scanAndSaveDeals: scan, then price and save each deal     *)
(***************************************************************************)
MaxDeals == 2

\* the two planners of the repository: the plain one saves every priced
\* deal, the scoring one also skips a deal whose score is 0
PlannerVariants == {"plain", "scoring"}

DealUrls == {"a", "b"}

\* the scanner keeps only deals with a price above 0
DealPrices == {10 * Dollar, 38 * Dollar, 50 * Dollar}

DealsScanned == [url : DealUrls, price : DealPrices]

\* what scanner.scan() resolves to
SelectedDeals == UNION {[1..n -> DealsScanned] : n \in 0..MaxDeals}

\* what predictPrice does for one deal: it throws, or it returns a final
\* price, which is 0 when every signal failed
PlannerPredictions ==
    {[kind |-> "threw", finalPrice |-> Null]} \cup
    {[kind |-> "returned", finalPrice |-> p] :
        p \in {0, 40 * Dollar, 600 * Dollar}}

\* Math.min and Math.max of two numbers
Min2(a, b) == IF a <= b THEN a ELSE b

Max2(a, b) == IF a >= b THEN a ELSE b

\* the greatest common divisor of two positive numbers: a quotient is
\* computed on its reduced fraction, which keeps the products small
RECURSIVE Gcd(_, _)
Gcd(a, b) == IF b = 0 THEN a ELSE Gcd(b, a % b)

\* Math.round of the quotient num / den, den > 0
RoundQuotient(num, den) == (2 * num + den) \div (2 * den)

\* the plain planner: min(100, max(0, round(discountPercent))); with a fair
\* price of 0 the percentage is -Infinity, which clamps to 0
dealyticsScore(currentPrice, fairPrice) ==
    IF fairPrice = 0 THEN 0
    ELSE LET g == Gcd(fairPrice, currentPrice)
         IN Min2(100, Max2(0, RoundQuotient(
                                 100 * ((fairPrice - currentPrice) \div g),
                                 fairPrice \div g)))

\* the scoring planner (discountPercent is only logged and is left out)
calculateDealScore(currentPrice, fairPrice) ==
    IF \/ ~IsFinite(currentPrice) \/ ~IsFinite(fairPrice)
       \/ currentPrice <= 0 \/ fairPrice <= 0
    THEN [discount |-> 0, dealyticsScore |-> 0]
    ELSE LET discount == fairPrice - currentPrice
             g == Gcd(fairPrice, currentPrice)
             d == discount \div g
             f == fairPrice \div g
             capped == 100 * d > 90 * f
             bonus == IF discount < 5 * Dollar THEN -10
                      ELSE IF discount < 20 * Dollar THEN 0
                      ELSE IF discount < 100 * Dollar THEN 5
                      ELSE 10
             tenths == IF fairPrice < 20 * Dollar THEN 7
                       ELSE IF fairPrice > 500 * Dollar THEN 11
                       ELSE 10
             \* (baseScore + bonus) * multiplier as the quotient num / den
             num == IF capped THEN (90 + bonus) * f * tenths
                    ELSE (100 * d + bonus * f) * tenths
             den == 10 * f
         IN  IF discount <= 0
             THEN [discount |-> discount, dealyticsScore |-> 0]
             ELSE [discount |-> discount,
                   dealyticsScore |->
                       Max2(0, Min2(100, RoundQuotient(num, den)))]

ScoreOf(variant, currentPrice, fairPrice) ==
    IF variant = "plain" THEN dealyticsScore(currentPrice, fairPrice)
    ELSE calculateDealScore(currentPrice, fairPrice).dealyticsScore

\* a planner that skips on the score alone
SkippedOnScoreOnly(variant, finalPrice, score) ==
    variant = "scoring" /\ score = 0

\* the two `continue` statements of the loop body
Skipped(variant, finalPrice, score) ==
    \/ finalPrice = 0
    \/ variant = "scoring" /\ score = 0

\* a loop without the inner try: an error ends the whole scan
CountedOrAborted(p, outcome) ==
    IF outcome = "error"
    THEN [p EXCEPT !.pc = "threw"]
    ELSE LET q == [p EXCEPT
                     !.savedCount = IF outcome = "saved" THEN @ + 1 ELSE @,
                     !.skippedCount = IF outcome = "skipped" THEN @ + 1 ELSE @]
         IN IF p.i < Len(p.deals)
            THEN [q EXCEPT !.i = @ + 1, !.pc = "price"]
            ELSE [q EXCEPT !.pc = "returned", !.result = q.savedCount]

\* the end of one iteration: the deal is counted, and the loop goes on to
\* the next deal or, after the last one, returns savedCount
Counted(p, outcome) ==
    LET q == [p EXCEPT
                 !.savedCount = IF outcome = "saved" THEN @ + 1 ELSE @,
                 !.skippedCount = IF outcome = "skipped" THEN @ + 1 ELSE @,
                 !.errorCount = IF outcome = "error" THEN @ + 1 ELSE @]
    IN IF p.i < Len(p.deals)
       THEN [q EXCEPT !.i = @ + 1, !.pc = "price"]
       ELSE [q EXCEPT !.pc = "returned", !.result = q.savedCount]

NoRow == [predictedFairPrice |-> Null, dealyticsScore |-> Null]

\* predictions and upserts are the history of the calls made
PlannerIdle(variant) ==
    [op |-> "planner", variant |-> variant, pc |-> "idle",
     deals |-> <<>>, i |-> 0,
     savedCount |-> 0, skippedCount |-> 0, errorCount |-> 0,
     predictions |-> <<>>, upserts |-> <<>>,
     db |-> [u \in DealUrls |-> NoRow], result |-> Null]

InitPlanner ==
    /\ env = "on"
    /\ backend = Unscripted
    /\ AgentIdle
    /\ \E variant \in PlannerVariants : probe = PlannerIdle(variant)

\* scanAndSaveDeals is called and awaits the scanner
ScanAndSaveDeals ==
    /\ probe.op = "planner"
    /\ probe.pc = "idle"
    /\ probe' = [probe EXCEPT !.pc = "scan"]
    /\ UNCHANGED <<env, backend, run, mainPc, llamaPc, gptPc, pplxPc, llamaResult,
                   gpt, rawPerplexityPrice, calls, fusion, prediction, previous,
                   other>>

\* the scanner rejects, or resolves to the selected deals
ScanResponds ==
    /\ probe.op = "planner"
    /\ probe.pc = "scan"
    /\ \/ probe' = [probe EXCEPT !.pc = "threw"]
       \/ \E selectedDeals \in SelectedDeals :
            probe' = IF Len(selectedDeals) = 0
                     THEN [probe EXCEPT !.pc = "returned", !.result = 0]
                     ELSE [probe EXCEPT !.deals = selectedDeals, !.i = 1,
                                        !.pc = "price"]
    /\ UNCHANGED <<env, backend, run, mainPc, llamaPc, gptPc, pplxPc, llamaResult,
                   gpt, rawPerplexityPrice, calls, fusion, prediction, previous,
                   other>>

\* predictPrice settles for deal i: an error is counted, a final price of 0
\* (or a score of 0) skips the deal, anything else issues the upsert
PredictResponds ==
    /\ probe.op = "planner"
    /\ probe.pc = "price"
    /\ \E r \in PlannerPredictions :
        LET deal == probe.deals[probe.i]
            p == [probe EXCEPT !.predictions = Append(@, r)]
            score == ScoreOf(probe.variant, deal.price, r.finalPrice)
        IN probe' =
             IF r.kind = "threw" THEN Counted(p, "error")
             ELSE IF Skipped(probe.variant, r.finalPrice, score)
                  THEN Counted(p, "skipped")
             ELSE [p EXCEPT
                     !.pc = "upsert",
                     !.upserts = Append(@,
                        [deal |-> probe.i, url |-> deal.url,
                         predictedFairPrice |-> r.finalPrice,
                         dealyticsScore |-> score, status |-> "pending"])]
    /\ UNCHANGED <<env, backend, run, mainPc, llamaPc, gptPc, pplxPc, llamaResult,
                   gpt, rawPerplexityPrice, calls, fusion, prediction, previous,
                   other>>

\* the database answers the upsert: the row is written, or the call rejects
UpsertResponds ==
    /\ probe.op = "planner"
    /\ probe.pc = "upsert"
    /\ LET last == Len(probe.upserts)
           u == probe.upserts[last]
       IN \/ probe' = Counted(
                [probe EXCEPT
                    !.upserts[last].status = "ok",
                    !.db[u.url] = [predictedFairPrice |-> u.predictedFairPrice,
                                   dealyticsScore |-> u.dealyticsScore]],
                "saved")
          \/ probe' = Counted([probe EXCEPT !.upserts[last].status = "error"],
                              "error")
    /\ UNCHANGED <<env, backend, run, mainPc, llamaPc, gptPc, pplxPc, llamaResult,
                   gpt, rawPerplexityPrice, calls, fusion, prediction, previous,
                   other>>

NextPlanner ==
    \/ ScanAndSaveDeals
    \/ ScanResponds
    \/ PredictResponds
    \/ UpsertResponds

SpecPlanner == InitPlanner /\ [][NextPlanner]_vars

\* C27: scanAndSaveDeals never upserts a deal whose predicted final price is
\* 0, nor, in the scoring planner, a deal whose score is 0: every upsert
\* issued, and so every row written, carries the non-zero final price that
\* predictPrice returned for that same deal
C27_NoUpsertWithoutPrice ==
    probe.op = "planner" =>
        /\ \A k \in 1..Len(probe.upserts) :
            LET u == probe.upserts[k]
            IN /\ u.deal <= Len(probe.predictions)
               /\ probe.predictions[u.deal].kind = "returned"
               /\ probe.predictions[u.deal].finalPrice # 0
               /\ u.predictedFairPrice = probe.predictions[u.deal].finalPrice
               /\ u.url = probe.deals[u.deal].url
               /\ probe.variant = "scoring" => u.dealyticsScore # 0
        /\ \A url \in DealUrls :
            probe.db[url] # NoRow =>
                /\ probe.db[url].predictedFairPrice # 0
                /\ probe.variant = "scoring" => probe.db[url].dealyticsScore # 0

\* C27 witness: a scan in which one deal was priced at 0 and left out and
\* another deal was priced and written
C27_Witness ==
    /\ probe.op = "planner"
    /\ probe.pc = "returned"
    /\ \E k \in 1..Len(probe.predictions) :
          probe.predictions[k].kind = "returned"
          /\ probe.predictions[k].finalPrice = 0
    /\ \E k \in 1..Len(probe.upserts) : probe.upserts[k].status = "ok"
    /\ \E url \in DealUrls : probe.db[url] # NoRow

UpsertsWith(status) ==
    Cardinality({k \in 1..Len(probe.upserts) : probe.upserts[k].status = status})

PredictionsThrown ==
    Cardinality({k \in 1..Len(probe.predictions) :
                    probe.predictions[k].kind = "threw"})

\* C28: when scanAndSaveDeals returns, saved + skipped + errors is the number
\* of selected deals, each deal was priced once and counted once (saved for
\* a successful upsert, errored for a failed prediction or upsert, skipped
\* otherwise), and the value returned is the saved count; only a failing
\* scan makes the call throw, never an error on one deal
C28_EveryDealCounted ==
    probe.op = "planner" =>
        /\ probe.pc = "returned" =>
            /\ probe.savedCount + probe.skippedCount + probe.errorCount
                   = Len(probe.deals)
            /\ Len(probe.predictions) = Len(probe.deals)
            /\ probe.savedCount = UpsertsWith("ok")
            /\ probe.errorCount = PredictionsThrown + UpsertsWith("error")
            /\ probe.result = probe.savedCount
        /\ probe.pc = "threw" => (probe.deals = <<>> /\ probe.predictions = <<>>)

\* C28 witness: a scan of two deals that returned after an error on the
\* first deal, the second deal being saved
C28_Witness ==
    /\ probe.op = "planner"
    /\ probe.pc = "returned"
    /\ Len(probe.deals) >= 2
    /\ probe.predictions[1].kind = "threw"
    /\ probe.errorCount >= 1
    /\ probe.savedCount >= 1
    /\ probe.result = probe.savedCount

(***************************************************************************)
(* The proxy middleware: public routes, protected routes, session cookie   *)
(***************************************************************************)
MaxPathParts == 3

\* a path is a sequence of characters
PUBLIC_ROUTES ==
    {<<"/">>,
     <<"/", "l", "o", "g", "i", "n">>,
     <<"/", "s", "i", "g", "n", "u", "p">>}

PROTECTED_ROUTES ==
    {<<"/", "d", "a", "s", "h", "b", "o", "a", "r", "d">>,
     <<"/", "p", "r", "i", "c", "e", "-", "c", "h", "e", "c", "k", "e", "r">>,
     <<"/", "d", "e", "a", "l">>}

ApiPrefix == <<"/", "a", "p", "i", "/">>

SESSION_COOKIE_NAMES ==
    {"better-auth.session_token", "__Secure-better-auth.session_token"}

\* String.prototype.startsWith
StartsWith(path, prefix) ==
    Len(path) >= Len(prefix) /\ SubSeq(path, 1, Len(prefix)) = prefix

hasValidSession(cookies) == \E cookieName \in SESSION_COOKIE_NAMES : cookieName \in cookies

\* a public test that matches the routes as prefixes
isPublicRoutePrefix(path) ==
    \/ \E route \in PUBLIC_ROUTES : StartsWith(path, route)
    \/ StartsWith(path, ApiPrefix)

isPublicRoute(path) ==
    \/ \E route \in PUBLIC_ROUTES : path = route
    \/ StartsWith(path, ApiPrefix)

isProtectedRoute(path) == \E route \in PROTECTED_ROUTES : StartsWith(path, route)

NextResponse == [kind |-> "next", pathname |-> <<>>, callbackUrl |-> <<>>]

proxy(path, cookies) ==
    IF isPublicRoute(path) THEN NextResponse
    ELSE IF isProtectedRoute(path) /\ ~hasValidSession(cookies)
         THEN [kind |-> "redirect", pathname |-> <<"/", "l", "o", "g", "i", "n">>,
               callbackUrl |-> path]
    ELSE NextResponse

\* the pieces requested paths are made of; a pathname begins with a slash
PathParts ==
    PUBLIC_ROUTES \cup PROTECTED_ROUTES \cup
    {<<"/", "a", "p", "i">>, <<"s">>, <<"/", "x">>}

RECURSIVE PathsOf(_)
PathsOf(n) ==
    IF n = 1 THEN {part \in PathParts : part[1] = "/"}
    ELSE PathsOf(n - 1) \cup {path \o part : path \in PathsOf(n - 1), part \in PathParts}

Paths == PathsOf(MaxPathParts)

CookieJars == SUBSET (SESSION_COOKIE_NAMES \cup {"theme"})

InitProxy ==
    /\ env = "on"
    /\ backend = Unscripted
    /\ AgentIdle
    /\ \E path \in Paths, cookies \in CookieJars :
          probe = [op |-> "proxy", path |-> path, cookies |-> cookies,
                   done |-> FALSE, response |-> NextResponse]

ApplyProxy ==
    /\ probe.op = "proxy"
    /\ ~probe.done
    /\ probe' = [probe EXCEPT !.done = TRUE,
                              !.response = proxy(probe.path, probe.cookies)]
    /\ UNCHANGED <<env, backend, run, mainPc, llamaPc, gptPc, pplxPc, llamaResult,
                   gpt, rawPerplexityPrice, calls, fusion, prediction, previous,
                   other>>

SpecProxy == InitProxy /\ [][ApplyProxy]_vars

BeginsProtected ==
    \/ StartsWith(probe.path, <<"/", "d", "a", "s", "h", "b", "o", "a", "r", "d">>)
    \/ StartsWith(probe.path, <<"/", "p", "r", "i", "c", "e", "-", "c", "h", "e", "c", "k", "e", "r">>)
    \/ StartsWith(probe.path, <<"/", "d", "e", "a", "l">>)

CarriesNoSession ==
    /\ "better-auth.session_token" \notin probe.cookies
    /\ "__Secure-better-auth.session_token" \notin probe.cookies

AlwaysOpen ==
    \/ probe.path = <<"/">>
    \/ probe.path = <<"/", "l", "o", "g", "i", "n">>
    \/ probe.path = <<"/", "s", "i", "g", "n", "u", "p">>
    \/ StartsWith(probe.path, <<"/", "a", "p", "i", "/">>)

\* C29: a request for a path beginning with /dashboard, /price-checker or
\* /deal that carries no session cookie is never passed through, it is
\* redirected to /login with callbackUrl set to the path; a request for /,
\* /login, /signup or a path under /api/ passes whatever its cookies are
C29_ProtectedNeedsSession ==
    (probe.op = "proxy" /\ probe.done) =>
        /\ (BeginsProtected /\ CarriesNoSession) =>
              /\ probe.response.kind = "redirect"
              /\ probe.response.pathname = <<"/", "l", "o", "g", "i", "n">>
              /\ probe.response.callbackUrl = probe.path
        /\ AlwaysOpen => probe.response.kind = "next"

\* C29 witness: a request below /dashboard without a session cookie that
\* was redirected
C29_Witness ==
    /\ probe.op = "proxy"
    /\ probe.done
    /\ StartsWith(probe.path, <<"/", "d", "a", "s", "h", "b", "o", "a", "r", "d">>)
    /\ Len(probe.path) > Len(<<"/", "d", "a", "s", "h", "b", "o", "a", "r", "d">>)
    /\ probe.cookies = {"theme"}
    /\ probe.response.kind = "redirect"

====
